---- MODULE Spec2Model ----
(***************************************************************************)
(* re-execute: the debounce / dispatch / execution queue.                  *)
(*                                                                         *)
(* Threads modelled: the main thread (Args::validate, Queue::start), the   *)
(* queue thread (Queue::run, Queue::execute), one worker thread per        *)
(* dispatched command (run_command) and its two stream readers             *)
(* (pipe_child_streams_to_events).  Threads interleave freely: a sleep or  *)
(* a receive timeout is a lower bound on the time a thread stays away,     *)
(* never an upper bound.                                                   *)
(*                                                                         *)
(* Time is the queue thread's own clock.  It advances in steps of Quantum  *)
(* (action Tick); last_update holds the milliseconds elapsed since the     *)
(* stored Instant, q_timer the milliseconds the queue thread has spent in  *)
(* its current recv_timeout / sleep.  Both saturate just above the         *)
(* largest value the code compares them with.                              *)
(***************************************************************************)
EXTENDS Integers, Sequences, FiniteSets, TLC

\* ---------------------------------------------------------------- values

\* Option<T>: None is the empty tuple, Some(x) the one-element tuple.
None == << >>
Some(x) == << x >>

Min(a, b) == IF a <= b THEN a ELSE b

\* ------------------------------------------------------- program constants

RecvTimeoutMs == 100
QuietWindowMs == 200
GraceMs == 100
SIGKILL == 9
MAX_CONCURRENT_WORKERS == 3

FILE_SUBSTITUTION == << "{", "f", "i", "l", "e", "}" >>
FILES_SUBSTITUTION == << "{", "f", "i", "l", "e", "s", "}" >>

\* ------------------------------------------------------------------ bounds

\* Commands one queue instance dispatches before the model stops it.
MaxCommands == 2

\* Lines a child writes to each of its streams.
MaxLines == 1

\* Time step of the queue thread's clock: the receive timeout, of which the
\* quiet window and the grace period are multiples.
Quantum == RecvTimeoutMs

\* ------------------------------------------------------------------ inputs

\* Changed paths, as component lists.
PathA == << "src", "a.rs" >>
PathB == << "src", "b.rs" >>
Paths == { PathA, PathB }

\* Watch roots: the directory holding both files, and PathA watched by itself.
WatchDir == << "src" >>
WatchFileA == PathA
\* The (changed path, watch root) pairs the watchers can report.
Changes == { << PathA, WatchDir >>, << PathB, WatchDir >>, << PathA, WatchFileA >> }

\* Command lines (Args.command, a Vec<String> of character strings).
Prog == << "r" >>
CommandLines ==
  { << Prog, FILE_SUBSTITUTION >>,
    << Prog, FILES_SUBSTITUTION >>,
    << Prog >>,
    << Prog, FILE_SUBSTITUTION, FILES_SUBSTITUTION >>,
    << >> }

\* Exit codes a child returns on its own.
ExitCodes == { 0, 1 }

\* The two piped streams of a child.
Streams == { "stdout", "stderr" }

CommandNumbers == 0 .. (MaxCommands - 1)

\* ------------------------------------------------------------------- state

VARIABLES
  main_pc,       \* main thread: "validate", "start", "running", "error"
  args,          \* the Args struct
  error,         \* the error main() reports, None when there is none
  q_pc,          \* queue thread: "none", "recv", "grace", "stopped"
  q_timer,       \* ms spent in the current recv_timeout / grace sleep
  files,         \* Queue.files
  last_update,   \* Queue.last_update: None, or Some(ms elapsed since it)
  command_count, \* Queue.command_count
  abort,         \* Queue.abort, the flag shared with the workers
  workers,       \* Queue.workers: the tracked handles, by command number
  wpc,           \* worker n: "unborn", "spawn", "poll", "finished", "panicked"
  child,         \* worker n's child: NoChild, Running, or its ExitStatus
  targets,       \* worker n's invocation: the paths its command was built for
  invocation,    \* worker n's invocation: the argument built for the shell
  lines,         \* lines[n][s]: lines the reader of stream s of worker n has sent
  exists,        \* the paths that exist on disk
  unsent,        \* the changes a watcher burst has yet to report
  report,        \* the reporting channel: the events sent, in order
  report_open,   \* the reporting channel's receiver is alive
  probe,         \* the arguments of the filter function under study, or None
  verdict        \* what that function returned, None before the call

vars ==
  << main_pc, args, error, q_pc, q_timer, files, last_update, command_count,
     abort, workers, wpc, child, targets, invocation, lines, exists, unsent, report, report_open,
     probe, verdict >>

queue_vars == << q_pc, q_timer, files, last_update, command_count, abort, workers >>
worker_vars == << wpc, child, targets, invocation, lines >>
filter_vars == << probe, verdict >>

\* ----------------------------------------------------------- pure helpers

\* str::contains
Contains(s, sub) ==
  \E i \in 1 .. (Len(s) - Len(sub) + 1) : SubSeq(s, i, i + Len(sub) - 1) = sub

\* Vec<String>::join(" ")
RECURSIVE Join(_)
Join(words) ==
  IF words = << >> THEN << >>
  ELSE IF Len(words) = 1 THEN Head(words)
  ELSE Head(words) \o << " " >> \o Join(Tail(words))

\* Path::file_name: the last component.
FileName(p) == p[Len(p)]

\* A child process: not started, running, or ended with an ExitStatus
\* (code and signal, each an Option).
NoChild == [ state |-> "none", code |-> None, signal |-> None ]
Running == [ state |-> "running", code |-> None, signal |-> None ]
Exited(c) == [ state |-> "exited", code |-> Some(c), signal |-> None ]
Signaled(s) == [ state |-> "exited", code |-> None, signal |-> Some(s) ]

\* A running child that has changed its credentials, so that the worker has
\* no permission to signal it.
Unkillable == [ state |-> "unkillable", code |-> None, signal |-> None ]

\* Child::kill, its Result thrown away: a running child the worker may
\* signal is killed, any other is left as it is.
kill(ch) == IF ch = Running THEN Signaled(SIGKILL) ELSE ch

\* exit_code::get_exit_code where cfg(not(unix)): the signal is not looked at.
get_exit_codeNotUnix(status) == status.code

\* exit_code::get_exit_code (unix)
get_exit_code(status) ==
  IF status.code # None THEN status.code
  ELSE IF status.signal # None THEN Some(status.signal[1] + 128)
  ELSE None

\* The ExecMessage variants.
Start(n, names) == [ type |-> "Start", command_number |-> n, files |-> names ]
Output(n, s) == [ type |-> "Output", command_number |-> n, stream |-> s ]
Finish(n, code) == [ type |-> "Finish", command_number |-> n, exit_code |-> code ]

\* send_msg_unchecked!: the events are queued while the receiver is alive,
\* and dropped (the send fails, the error is ignored) once it is gone.
Sent(evs) == IF report_open THEN report \o evs ELSE report

\* ------------------------------------------------------------ main thread

\* args.rs:124: one execution for all files unless {file} is used.
BatchExec(cmd) == ~Contains(cmd, FILE_SUBSTITUTION)

\* The test of the placeholders with the batch flag the wrong way round.
ConflictingSwapped(cmd, batch) == Contains(cmd, FILES_SUBSTITUTION) /\ batch

\* args.rs:125-126: both placeholders are used.
ConflictingPlaceholders(cmd, batch) == Contains(cmd, FILES_SUBSTITUTION) /\ ~batch

\* args.rs:135-136: without any placeholder, previous commands are aborted.
AbortPreviousAsPassed(cmd, batch, flag) == flag

AbortPrevious(cmd, batch, flag) ==
  IF ~Contains(cmd, FILES_SUBSTITUTION) /\ batch THEN TRUE ELSE flag

\* Args::validate
Validate ==
  /\ main_pc = "validate"
  /\ UNCHANGED << queue_vars, worker_vars, exists, filter_vars, unsent, report, report_open >>
  /\ IF args.command = << >>
     THEN /\ error' = Some("EmptyCommand")
          /\ main_pc' = "error"
          /\ args' = args
     ELSE LET cmd == Join(args.command)
              batch == BatchExec(cmd)
          IN IF ConflictingPlaceholders(cmd, batch)
             THEN /\ error' = Some("CommandParseError")
                  /\ main_pc' = "error"
                  /\ args' = [ args EXCEPT !.batch_exec = batch ]
             ELSE /\ error' = None
                  /\ main_pc' = "start"
                  /\ args' = [ args EXCEPT
                       !.batch_exec = batch,
                       !.abort_previous = AbortPrevious(cmd, batch, @),
                       !.command = << cmd >> ]

\* The Queue's configuration, copied from Args by Queue::start.
command == args.command[1]
batch_exec == args.batch_exec
deleted_files == args.deleted
abort_previous == args.abort_previous
pipe_command_output == ~args.quiet

\* Queue::start
QueueStart ==
  /\ main_pc = "start"
  /\ UNCHANGED << args, worker_vars, exists, filter_vars, unsent, report, report_open >>
  /\ IF Len(args.command) # 1
     THEN /\ error' = Some("InternalError")
          /\ main_pc' = "error"
          /\ UNCHANGED queue_vars
     ELSE /\ main_pc' = "running"
          /\ error' = error
          /\ q_pc' = "recv"
          /\ q_timer' = 0
          /\ files' = {}
          /\ last_update' = None
          /\ command_count' = 0
          /\ abort' = FALSE
          /\ workers' = {}

\* ------------------------------------------------------------ queue thread

\* A set keyed on the changed path alone.
InsertByPath(fs, x) == { f \in fs : f[1] # x[1] } \cup { x }

\* HashSet::insert
Insert(fs, x) == fs \cup { x }

\* The tracked handles with no finished one taken out.
RetainedAll == workers

\* workers.retain(|w| !w.is_finished())
Retained == { n \in workers : wpc[n] \notin { "finished", "panicked" } }

\* The pending set left as it is, whatever exists.
KeptAll(fs) == fs

\* files.retain(|(p, _)| p.exists()), unless deleted files are wanted
Kept(fs) == IF ~deleted_files THEN { f \in fs : f[1] \in exists } ELSE fs

\* The time, in ms, by which the clock read of t.elapsed() is later than the
\* wakeup of the thread: the timers count the time to the wakeup, and the
\* clock may or may not have advanced since.
Latencies == { 0, 1 }

\* The test against the tick of recv_timeout instead of the quiet window.
QuietElapsedTick(lu, late) == lu # None /\ lu[1] + late > RecvTimeoutMs

\* The test of the timestamp alone, whatever time has passed.
QuietElapsedAnyTime(lu, late) == lu # None

\* The test for any time passed on the clock of the thread.
QuietElapsedOnWakeup(lu, late) == lu # None /\ lu[1] > 0

\* if let Some(t) = last_update && t.elapsed() > 200 ms
QuietElapsed(lu, late) == lu # None /\ lu[1] + late > QuietWindowMs

\* Less than the quiet window has passed since the last addition.
WindowOpen(lu) == IF lu = None THEN TRUE ELSE lu[1] < QuietWindowMs

\* The flag left as the flush found it.
AbortKept == abort

\* self.abort.store(false): the flag when the targets are chosen.
AbortCleared == FALSE

\* The counter left as it is.
NextCommandCountStuck(c) == c

\* self.command_count += 1
NextCommandCount(c) == c + 1

\* The orders in which a HashSet may yield its elements.
Orders(fs) ==
  { o \in [ 1 .. Cardinality(fs) -> fs ] :
      \A i, j \in 1 .. Cardinality(fs) : i # j => o[i] # o[j] }

\* Every flush drains the whole pending set.
ChoicesDrain(fs) ==
  { [ p |-> [ i \in 1 .. Cardinality(fs) |-> o[i][1] ], rest |-> {} ] : o \in Orders(fs) }

\* Every flush takes one pending entry.
ChoicesOne(fs) ==
  { [ p |-> << paths[1] >>, rest |-> fs \ { paths } ] : paths \in fs }

\* Every flush takes one pending entry and leaves it pending.
ChoicesKeep(fs) ==
  { [ p |-> << paths[1] >>, rest |-> fs ] : paths \in fs }

\* The target lists `p` Queue::execute may choose from the pending set fs,
\* each with the pending set it leaves behind.
Choices(fs) ==
  IF ~batch_exec
  THEN { [ p |-> << paths[1] >>, rest |-> fs \ { paths } ] : paths \in fs }
  ELSE { [ p |-> [ i \in 1 .. Cardinality(fs) |-> o[i][1] ], rest |-> {} ] : o \in Orders(fs) }

\* The files of a Start event: the file name of every target.
StartFiles(p) == [ i \in 1 .. Len(p) |-> FileName(p[i]) ]

\* A dispatch that announces nothing.
DispatchEventsNone(n, p) == << >>

\* What Queue::execute sends before it spawns worker n.
DispatchEvents(n, p) == << Start(n, StartFiles(p)) >>

\* A queue thread that drops its pending set and goes on receiving.
QueueGoesOn ==
  /\ q_pc' = "recv"
  /\ q_timer' = 0
  /\ files' = {}
  /\ last_update' = None
  /\ workers' = workers

\* The queue thread ends: the Queue is dropped, with its pending set and its
\* worker handles (the workers are detached, the flag stays shared).
QueueStops ==
  /\ q_pc' = "stopped"
  /\ q_timer' = 0
  /\ files' = {}
  /\ last_update' = None
  /\ workers' = {}

\* The characters of a path component.
Text(c) ==
  CASE c = "src" -> << "s", "r", "c" >>
    [] c = "a.rs" -> << "a", ".", "r", "s" >>
    [] c = "b.rs" -> << "b", ".", "r", "s" >>

\* Path::to_string_lossy: the components, with the separator between them.
RECURSIVE to_string_lossy(_)
to_string_lossy(path) ==
  IF path = << >> THEN << >>
  ELSE IF Len(path) = 1 THEN Text(Head(path))
  ELSE Text(Head(path)) \o << "/" >> \o to_string_lossy(Tail(path))

\* A replacement of the first occurrence only.
RECURSIVE replaceFirst(_, _, _)
replaceFirst(s, from, to) ==
  IF Len(s) < Len(from) THEN s
  ELSE IF SubSeq(s, 1, Len(from)) = from
  THEN to \o SubSeq(s, Len(from) + 1, Len(s))
  ELSE << Head(s) >> \o replaceFirst(Tail(s), from, to)

\* str::replace: every occurrence of `from`, taken from left to right.
RECURSIVE replace(_, _, _)
replace(s, from, to) ==
  IF Len(s) < Len(from) THEN s
  ELSE IF SubSeq(s, 1, Len(from)) = from
  THEN to \o replace(SubSeq(s, Len(from) + 1, Len(s)), from, to)
  ELSE << Head(s) >> \o replace(Tail(s), from, to)

\* The argument Queue::execute builds for the shell from the targets p.
Argument(p) ==
  IF Contains(command, FILE_SUBSTITUTION)
  THEN replace(command, FILE_SUBSTITUTION, to_string_lossy(p[1]))
  ELSE IF Contains(command, FILES_SUBSTITUTION)
  THEN replace(command, FILES_SUBSTITUTION,
               Join([ i \in DOMAIN p |-> to_string_lossy(p[i]) ]))
  ELSE command

\* Queue::execute from the clearing of the abort flag on: pick the targets,
\* number the command, send Start, spawn the worker; then the tail of the
\* loop body in Queue::run.  fs is the pending set after the existence
\* filter, lu is Queue.last_update, ws the tracked workers.
Dispatch(fs, lu, ws) ==
  /\ abort' = AbortCleared
  /\ command_count' = NextCommandCount(command_count)
  /\ \E c \in Choices(fs) :
       IF report_open
       THEN /\ report' = report \o DispatchEvents(command_count, c.p)
            /\ workers' = ws \cup { command_count }
            /\ wpc' = [ wpc EXCEPT ![command_count] = "spawn" ]
            /\ targets' = [ targets EXCEPT ![command_count] = c.p ]
            /\ invocation' = [ invocation EXCEPT ![command_count] = Some(Argument(c.p)) ]
            /\ files' = c.rest
            /\ q_pc' = "recv"
            /\ q_timer' = 0
            /\ last_update' = IF c.rest = {} THEN None ELSE lu
       ELSE \* the send fails: execute returns the error, run returns
            /\ QueueStops
            /\ UNCHANGED << report, wpc, targets, invocation >>
  /\ UNCHANGED << main_pc, args, error, child, lines, exists, filter_vars, report_open >>

\* The loop body of Queue::run after the message was handled: reap the
\* finished workers, and call execute when the quiet window has elapsed.
\* fs and lu are Queue.files and Queue.last_update after the message.
\* (The frame leaves out unsent, which belongs to the sender of the message.)
LoopTail(fs, lu) ==
  \E late \in Latencies :
  IF ~QuietElapsed(lu, late)
  THEN /\ files' = fs
       /\ last_update' = lu
       /\ workers' = Retained
       /\ q_timer' = 0
       /\ UNCHANGED << main_pc, args, error, q_pc, command_count, abort,
                       worker_vars, exists, filter_vars, report, report_open >>
  ELSE IF fs = {}
  THEN \* execute returns InternalError, run returns
       /\ QueueStops
       /\ UNCHANGED << main_pc, args, error, command_count, abort,
                       worker_vars, exists, filter_vars, report, report_open >>
  ELSE IF Kept(fs) = {}
  THEN \* execute returns Ok(()) with nothing left to run
       /\ files' = {}
       /\ last_update' = None
       /\ workers' = Retained
       /\ q_timer' = 0
       /\ UNCHANGED << main_pc, args, error, q_pc, command_count, abort,
                       worker_vars, exists, filter_vars, report, report_open >>
  ELSE IF abort_previous /\ Retained # {}
  THEN \* raise the flag and sleep
       /\ command_count \in DOMAIN wpc
       /\ abort' = TRUE
       /\ q_pc' = "grace"
       /\ q_timer' = 0
       /\ files' = Kept(fs)
       /\ last_update' = lu
       /\ workers' = Retained
       /\ UNCHANGED << main_pc, args, error, command_count,
                       worker_vars, exists, filter_vars, report, report_open >>
  ELSE /\ command_count \in DOMAIN wpc
       /\ Dispatch(Kept(fs), lu, Retained)

\* An Abort that raises the flag of the workers as it ends the loop.
RecvAbortRaising ==
  /\ q_pc = "recv"
  /\ QueueStops
  /\ abort' = TRUE
  /\ UNCHANGED << main_pc, args, error, command_count,
                  worker_vars, exists, filter_vars, unsent, report, report_open >>

\* Ok(QueueMessage::Abort)
RecvAbort ==
  /\ q_pc = "recv"
  /\ QueueStops
  /\ UNCHANGED << main_pc, args, error, command_count, abort,
                  worker_vars, exists, filter_vars, unsent, report, report_open >>

\* A RestartBackoff that sets the timestamp whatever is pending.
RecvRestartBackoffAlways ==
  /\ q_pc = "recv"
  /\ unsent' = unsent
  /\ LoopTail(files, Some(0))

\* Ok(QueueMessage::RestartBackoff)
RecvRestartBackoff ==
  /\ q_pc = "recv"
  /\ unsent' = unsent
  /\ LoopTail(files, IF files # {} THEN Some(0) ELSE last_update)

\* An addition that leaves the timer as it is.
RecvAddFileUnarmed(p, watch) ==
  /\ q_pc = "recv"
  /\ LoopTail(Insert(files, << p, watch >>), last_update)

\* Ok(QueueMessage::AddFile(p, watch)).  The watcher that sent it is left to
\* the caller (unsent).
RecvAddFile(p, watch) ==
  /\ q_pc = "recv"
  /\ LoopTail(Insert(files, << p, watch >>), Some(0))

\* Err(RecvTimeoutError::Timeout)
RecvTimeout ==
  /\ q_pc = "recv"
  /\ q_timer >= RecvTimeoutMs
  /\ unsent' = unsent
  /\ LoopTail(files, last_update)

\* Err(RecvTimeoutError::Disconnected)
RecvDisconnected ==
  /\ q_pc = "recv"
  /\ QueueStops
  /\ UNCHANGED << main_pc, args, error, command_count, abort,
                  worker_vars, exists, filter_vars, unsent, report, report_open >>

\* The grace sleep of Queue::execute is over: clear the flag and dispatch.
GraceDone ==
  /\ q_pc = "grace"
  /\ q_timer >= GraceMs
  /\ unsent' = unsent
  /\ Dispatch(files, last_update, workers)

\* ----------------------------------------------------------------- workers

\* command.spawn() in run_command: the child starts (ok), or spawn returns
\* an error and expect() panics the thread.
WorkerSpawn(n, ok) ==
  /\ wpc[n] = "spawn"
  /\ IF ok
     THEN /\ wpc' = [ wpc EXCEPT ![n] = "poll" ]
          /\ child' = [ child EXCEPT ![n] = Running ]
     ELSE /\ wpc' = [ wpc EXCEPT ![n] = "panicked" ]
          /\ child' = child
  /\ UNCHANGED << main_pc, args, error, queue_vars, targets, invocation, lines, exists, filter_vars, unsent,
                  report, report_open >>

\* The child ends by itself with exit code c.
ChildExit(n, c) ==
  /\ child[n] \in { Running, Unkillable }
  /\ child' = [ child EXCEPT ![n] = Exited(c) ]
  /\ UNCHANGED << main_pc, args, error, queue_vars, wpc, targets, invocation, lines, exists, filter_vars, unsent,
                  report, report_open >>

\* A worker that reports the end of its command twice.
FinishEventsTwice(n, status) ==
  << Finish(n, IF status = None THEN None ELSE get_exit_code(status[1])),
     Finish(n, IF status = None THEN None ELSE get_exit_code(status[1])) >>

\* What run_command sends when it has left its loop with `status`.
FinishEvents(n, status) ==
  << Finish(n, IF status = None THEN None ELSE get_exit_code(status[1])) >>

\* The end of run_command: the Finish event, after which the thread is
\* finished and its Command and Child are dropped.
WorkerFinish(n, status) ==
  /\ report' = Sent(FinishEvents(n, status))
  /\ wpc' = [ wpc EXCEPT ![n] = "finished" ]
  /\ child' = [ child EXCEPT ![n] = NoChild ]
  /\ targets' = [ targets EXCEPT ![n] = << >> ]
  /\ invocation' = [ invocation EXCEPT ![n] = None ]

\* A liveness loop that a failed kill breaks, as a failed try_wait does.
WorkerPollKillChecked(n, wait_ok) ==
  /\ wpc[n] = "poll"
  /\ IF ~wait_ok
     THEN WorkerFinish(n, None)
     ELSE IF child[n].state = "exited"
     THEN WorkerFinish(n, Some(child[n]))
     ELSE /\ abort
          /\ IF kill(child[n]) = child[n]
             THEN WorkerFinish(n, None)
             ELSE /\ child' = [ child EXCEPT ![n] = kill(child[n]) ]
                  /\ UNCHANGED << wpc, targets, invocation, report >>
  /\ UNCHANGED << main_pc, args, error, queue_vars, lines, exists, filter_vars, unsent, report_open >>

\* One turn of the liveness loop of run_command: try_wait (which succeeds
\* when wait_ok), then the abort flag, then the sleep.
WorkerPoll(n, wait_ok) ==
  /\ wpc[n] = "poll"
  /\ IF ~wait_ok
     THEN \* Err(_) => break None
          WorkerFinish(n, None)
     ELSE IF child[n].state = "exited"
     THEN \* Ok(Some(status)) => break Some(status)
          WorkerFinish(n, Some(child[n]))
     ELSE \* Ok(None): kill the child when the flag is raised, sleep
          /\ abort
          /\ child' = [ child EXCEPT ![n] = kill(child[n]) ]
          /\ UNCHANGED << wpc, targets, invocation, report >>
  /\ UNCHANGED << main_pc, args, error, queue_vars, lines, exists, filter_vars, unsent, report_open >>

\* The running child changes its credentials.
ChildEscapes(n) ==
  /\ child[n] = Running
  /\ child' = [ child EXCEPT ![n] = Unkillable ]
  /\ UNCHANGED << main_pc, args, error, queue_vars, wpc, targets, invocation, lines, exists, filter_vars, unsent,
                  report, report_open >>

\* A reader thread of pipe_child_streams_to_events reads one line of stream
\* s and sends it.  The readers exist once the child was spawned with piped
\* streams; nothing joins them, and the pipe outlives the child.
ReaderSend(n, s) ==
  /\ pipe_command_output
  /\ wpc[n] \in { "poll", "finished" }
  /\ lines[n][s] < MaxLines
  /\ lines' = [ lines EXCEPT ![n][s] = @ + 1 ]
  /\ report' = Sent(<< Output(n, s) >>)
  /\ UNCHANGED << main_pc, args, error, queue_vars, wpc, child, targets, invocation, exists, filter_vars, unsent,
                  report_open >>

\* ------------------------------------------------------------- environment

\* The queue thread's clock advances.
Tick ==
  /\ q_pc \in { "recv", "grace" }
  /\ q_timer' = Min(q_timer + Quantum, RecvTimeoutMs)
  /\ last_update' = IF last_update = None THEN None
                    ELSE Some(Min(last_update[1] + Quantum, QuietWindowMs + Quantum))
  /\ << q_timer', last_update' >> # << q_timer, last_update >>
  /\ UNCHANGED << main_pc, args, error, q_pc, files, command_count, abort, workers,
                  worker_vars, exists, filter_vars, unsent, report, report_open >>

\* A path is removed from disk.
DeletePath(p) ==
  /\ main_pc = "running"
  /\ p \in exists
  /\ exists' = exists \ { p }
  /\ UNCHANGED << main_pc, args, error, queue_vars, worker_vars, filter_vars, unsent,
                  report, report_open >>

\* The receiver of the reporting channel is dropped.
CloseReport ==
  /\ main_pc = "running"
  /\ report_open
  /\ report_open' = FALSE
  /\ UNCHANGED << main_pc, args, error, queue_vars, worker_vars, exists, filter_vars, unsent, report >>

\* A watcher reports change c of its burst, while the quiet window of the
\* burst is still open, and the queue thread receives it.
BurstAddFile(c) ==
  /\ c \in unsent
  /\ command_count = 0
  /\ WindowOpen(last_update)
  /\ unsent' = unsent \ { c }
  /\ RecvAddFile(c[1], c[2])

\* ------------------------------------------------- ignore rules (git.rs)

\* Text is a sequence of characters.  The characters the model uses, in the
\* order of their code points: the order a CharRange compares them in.
Alphabet ==
  << " ", "!", "#", "*", "-", ".", "/", "2", "?", "[", "\\", "]", "^", "_",
     "a", "b", "c", "d", "e", "f", "g", "i", "k", "l", "o", "p", "r", "s", "t", "v", "w", "x", "y", "z" >>

Ord(c) == CHOOSE i \in DOMAIN Alphabet : Alphabet[i] = c

\* s[i..]
Drop(s, i) == SubSeq(s, i + 1, Len(s))

\* str::find('/'): the index of the first slash, 0 when there is none.
RECURSIVE FindSlash(_, _)
FindSlash(s, i) ==
  IF i > Len(s) THEN 0 ELSE IF s[i] = "/" THEN i ELSE FindSlash(s, i + 1)

\* A separator token that any one character but a slash satisfies: never the
\* token of the program.
SlashAnyChar == [ kind |-> "QuestionMark", text |-> << >>, negated |-> FALSE, ranges |-> << >> ]

\* enum GitIgnoreRuleElements
Literal(l) == [ kind |-> "Literal", text |-> l, negated |-> FALSE, ranges |-> << >> ]
Slash == [ kind |-> "Slash", text |-> << >>, negated |-> FALSE, ranges |-> << >> ]
Asterisk == [ kind |-> "Asterisk", text |-> << >>, negated |-> FALSE, ranges |-> << >> ]
DoubleAsterisk == [ kind |-> "DoubleAsterisk", text |-> << >>, negated |-> FALSE, ranges |-> << >> ]
QuestionMark == [ kind |-> "QuestionMark", text |-> << >>, negated |-> FALSE, ranges |-> << >> ]
CharRange(negated, ranges) ==
  [ kind |-> "CharRange", text |-> << >>, negated |-> negated, ranges |-> ranges ]

\* The characters that end a literal run.
Special == { "/", "*", "?", "[", "\\" }

\* The end of the literal run that starts at s[i]: the index of its last character.
RECURSIVE LiteralEnd(_, _)
LiteralEnd(s, i) ==
  IF i + 1 <= Len(s) /\ s[i + 1] \notin Special THEN LiteralEnd(s, i + 1) ELSE i

\* The body of a character range from s[i] on: the ranges it holds and the
\* index of the first character after it.
RECURSIVE RangeBody(_, _, _)
RangeBody(s, i, acc) ==
  IF i > Len(s) THEN [ ranges |-> acc, next |-> i ]
  ELSE IF s[i] = "]" THEN [ ranges |-> acc, next |-> i + 1 ]
  ELSE IF i + 1 <= Len(s) /\ s[i + 1] = "-"
       THEN IF i + 2 <= Len(s)
            THEN RangeBody(s, i + 3, Append(acc, << s[i], s[i + 2] >>))
            ELSE RangeBody(s, i + 2, acc)
       ELSE RangeBody(s, i + 1, Append(acc, << s[i], s[i] >>))

\* The tokens of the pattern text s from s[i] on.
RECURSIVE Tokens(_, _)
Tokens(s, i) ==
  IF i > Len(s) THEN << >>
  ELSE IF s[i] = "\\"
       THEN IF i + 1 <= Len(s)
            THEN << Literal(<< s[i + 1] >>) >> \o Tokens(s, i + 2)
            ELSE << >>
  ELSE IF s[i] = "/" THEN << Slash >> \o Tokens(s, i + 1)
  ELSE IF s[i] = "*"
       THEN IF i + 1 <= Len(s) /\ s[i + 1] = "*"
            THEN << DoubleAsterisk >> \o Tokens(s, i + 2)
            ELSE << Asterisk >> \o Tokens(s, i + 1)
  ELSE IF s[i] = "?" THEN << QuestionMark >> \o Tokens(s, i + 1)
  ELSE IF s[i] = "["
       THEN LET negated == i + 1 <= Len(s) /\ s[i + 1] \in { "!", "^" }
                body == RangeBody(s, IF negated THEN i + 2 ELSE i + 1, << >>)
            IN << CharRange(negated, body.ranges) >> \o Tokens(s, body.next)
  ELSE << Literal(SubSeq(s, i, LiteralEnd(s, i))) >> \o Tokens(s, LiteralEnd(s, i) + 1)

\* The trailing spaces from_str trims: those not preceded by a backslash.
RECURSIVE SpacesToTrim(_)
SpacesToTrim(s) ==
  IF s = << >> THEN 0
  ELSE IF s[Len(s)] # " " THEN 0
  ELSE (IF Len(s) >= 2 /\ s[Len(s) - 1] # "\\" THEN 1 ELSE 0)
       + SpacesToTrim(SubSeq(s, 1, Len(s) - 1))

\* A rule whose trailing slash does not make it a rule for directories:
\* never the rule of the program.
from_strFiles(line) ==
  IF line = << >> THEN None
  ELSE IF line[1] = "#" THEN None
  ELSE LET is_negated == line[1] = "!"
           unbanged == IF is_negated THEN Tail(line) ELSE line
           trimmed == SubSeq(unbanged, 1, Len(unbanged) - SpacesToTrim(unbanged))
       IN Some([ pattern |-> Tokens(trimmed, 1),
                 is_negated |-> is_negated,
                 match_all_levels |-> ~ \E i \in 1 .. (Len(line) - 1) : line[i] = "/",
                 dirs_only |-> FALSE ])

\* GitIgnoreRule::from_str
from_str(line) ==
  IF line = << >> THEN None
  ELSE IF line[1] = "#" THEN None
  ELSE LET is_negated == line[1] = "!"
           unbanged == IF is_negated THEN Tail(line) ELSE line
           trimmed == SubSeq(unbanged, 1, Len(unbanged) - SpacesToTrim(unbanged))
       IN Some([ pattern |-> Tokens(trimmed, 1),
                 is_negated |-> is_negated,
                 match_all_levels |-> ~ \E i \in 1 .. (Len(line) - 1) : line[i] = "/",
                 dirs_only |-> line[Len(line)] = "/" ])

\* c >= start && c <= end for one of the ranges
InRanges(c, ranges) ==
  \E k \in DOMAIN ranges : Ord(c) >= Ord(ranges[k][1]) /\ Ord(c) <= Ord(ranges[k][2])

\* What an Asterisk that is the last token leaves of p: all from the next slash.
RestOfSegment(p) == IF FindSlash(p, 1) = 0 THEN << >> ELSE Drop(p, FindSlash(p, 1) - 1)

RECURSIVE string_matches(_, _, _)
RECURSIVE Walk(_, _, _)
RECURSIVE StripDirs(_, _, _)

\* One directory stripped and no more: never the loop of the program.
StripDirsOnce(dirs_only, remainder, rule) ==
  IF FindSlash(remainder, 1) = 0 THEN FALSE
  ELSE string_matches(dirs_only, Drop(remainder, FindSlash(remainder, 1) - 1), rule)

\* The loop of string_matches after a DoubleAsterisk: the remaining rules
\* tried from every slash of the remainder on.
StripDirs(dirs_only, remainder, rule) ==
  IF FindSlash(remainder, 1) = 0 THEN FALSE
  ELSE LET from_slash == Drop(remainder, FindSlash(remainder, 1) - 1)
       IN IF string_matches(dirs_only, from_slash, rule) THEN TRUE
          ELSE StripDirs(dirs_only, Tail(from_slash), rule)

\* The `while let Some(rule_element)` loop of string_matches and the test
\* that follows it: p is what is left of the candidate, rule what is left
\* of the tokens.
Walk(dirs_only, p, rule) ==
  IF rule = << >>
  THEN IF p = << >> THEN TRUE ELSE dirs_only \/ p[1] = "/"
  ELSE LET e == rule[1]
           rest == Tail(rule)
       IN CASE e.kind = "Literal" ->
                 IF Len(p) >= Len(e.text) /\ SubSeq(p, 1, Len(e.text)) = e.text
                 THEN Walk(dirs_only, Drop(p, Len(e.text)), rest)
                 ELSE FALSE
            [] e.kind = "Slash" ->
                 IF p = << >>
                 THEN IF rest # << >> THEN FALSE ELSE Walk(dirs_only, p, rest)
                 ELSE IF p[1] # "/" THEN FALSE ELSE Walk(dirs_only, Tail(p), rest)
            [] e.kind = "Asterisk" ->
                 IF rest = << >>
                 THEN IF p = << >> THEN FALSE ELSE Walk(dirs_only, RestOfSegment(p), rest)
                 ELSE IF p # << >> /\ p[1] = "/" THEN FALSE
                 ELSE \E i \in 0 .. (Len(p) - 1) : string_matches(dirs_only, Drop(p, i), rest)
            [] e.kind = "DoubleAsterisk" ->
                 IF rest = << >> THEN TRUE
                 ELSE IF FindSlash(p, 1) = 0 THEN TRUE
                 ELSE IF string_matches(dirs_only, p, rest) THEN TRUE
                 ELSE StripDirs(dirs_only, p, rest)
            [] e.kind = "QuestionMark" ->
                 IF p = << >> THEN FALSE
                 ELSE IF p[1] = "/" THEN FALSE
                 ELSE Walk(dirs_only, Tail(p), rest)
            [] e.kind = "CharRange" ->
                 IF p = << >> THEN FALSE
                 ELSE IF InRanges(p[1], e.ranges) = e.negated THEN FALSE
                 ELSE Walk(dirs_only, Tail(p), rest)

\* GitIgnoreRule::string_matches
string_matches(dirs_only, file, rule) ==
  IF rule # << >> /\ rule[1].kind = "Slash"
  THEN IF Len(rule) = 1 THEN FALSE
       ELSE Walk(dirs_only, IF file # << >> /\ file[1] = "/" THEN Tail(file) ELSE file, Tail(rule))
  ELSE Walk(dirs_only, file, rule)

\* Path: the components of a path text, "/" first when it is absolute;
\* empty components (repeated or trailing separators) are no components.
RECURSIVE Segments(_, _)
Segments(s, i) ==
  IF i > Len(s) THEN << >>
  ELSE IF s[i] = "/" THEN Segments(s, i + 1)
  ELSE LET j == IF FindSlash(s, i) = 0 THEN Len(s) + 1 ELSE FindSlash(s, i)
       IN << SubSeq(s, i, j - 1) >> \o Segments(s, j)

Components(s) ==
  IF s # << >> /\ s[1] = "/" THEN << << "/" >> >> \o Segments(s, 1) ELSE Segments(s, 1)

\* The text of a relative path with the given components.
RECURSIVE Joined(_)
Joined(comps) ==
  IF comps = << >> THEN << >>
  ELSE IF Len(comps) = 1 THEN comps[1]
  ELSE comps[1] \o << "/" >> \o Joined(Tail(comps))

\* Path::strip_prefix, then to_string_lossy: None when dir is no prefix of file.
strip_prefix(file, dir) ==
  LET f == Components(file)
      d == Components(dir)
  IN IF Len(d) <= Len(f) /\ SubSeq(f, 1, Len(d)) = d
     THEN Some(Joined(SubSeq(f, Len(d) + 1, Len(f))))
     ELSE None

\* The candidate tried as it is and at no other level.
AnyLevelTop(rule, current) == string_matches(rule.dirs_only, current, rule.pattern)

\* The loop of file_matches for a rule that matches at all levels: the
\* candidate, then what follows each of its slashes.
RECURSIVE AnyLevel(_, _)
AnyLevel(rule, current) ==
  IF string_matches(rule.dirs_only, current, rule.pattern) THEN TRUE
  ELSE IF FindSlash(current, 1) = 0 THEN FALSE
  ELSE AnyLevel(rule, Drop(current, FindSlash(current, 1)))

\* GitIgnoreRule::file_matches
file_matches(rule, file, dir) ==
  LET candidate == strip_prefix(file, dir)
  IN IF candidate = None THEN FALSE
     ELSE IF rule.match_all_levels THEN AnyLevel(rule, candidate[1])
     ELSE string_matches(rule.dirs_only, candidate[1], rule.pattern)

\* ------------------------------------------- rule sets (git.rs, utils.rs)

\* The directories and the ignore files of a file system: `dirs` is the set
\* of directory paths, `files` the set of the other paths that exist,
\* `ignore_files` gives for a directory the lines of its .gitignore, or None
\* where it has none.
IgnoreFileName == << ".", "g", "i", "t", "i", "g", "n", "o", "r", "e" >>

\* Path::parent: None for the root.
Parent(path) ==
  LET c == Components(path)
  IN IF Len(c) <= 1 THEN None
     ELSE IF Len(c) = 2 /\ c[1] = << "/" >> THEN Some(<< "/" >>)
     ELSE IF c[1] = << "/" >> THEN Some(<< "/" >> \o Joined(SubSeq(c, 2, Len(c) - 1)))
     ELSE Some(Joined(SubSeq(c, 1, Len(c) - 1)))

\* Path::join of a directory and a name.
JoinPath(dir, name) ==
  IF dir = << "/" >> THEN dir \o name ELSE dir \o << "/" >> \o name

\* same_file::is_same_file(dir, watch).unwrap_or(true): a path that cannot
\* be opened ends the walk as well.
SameFileOrError(fs, dir, watch) ==
  IF dir \notin (fs.dirs \cup fs.files) \/ watch \notin (fs.dirs \cup fs.files)
  THEN TRUE
  ELSE dir = watch

\* The directories visited by collect_ignore_rules and from_dir, from the
\* directory of the path up to the watch directory.
RECURSIVE WalkUp(_, _, _)
WalkUp(fs, current_path, watch) ==
  IF current_path = None THEN << >>
  ELSE LET dir == current_path[1]
       IN IF SameFileOrError(fs, dir, watch) THEN << dir >>
          ELSE << dir >> \o WalkUp(fs, Parent(dir), watch)

\* The first directory of the walk: the path if it is a directory, else its parent.
WalkStart(fs, path) == IF path \in fs.dirs THEN Some(path) ELSE Parent(path)

\* ignore_path.exists()
HasIgnoreFile(fs, dir) ==
  IF dir \in DOMAIN fs.ignore_files THEN fs.ignore_files[dir] # None ELSE FALSE

\* The visited directories that hold an ignore file, in the order of the walk.
IgnoreDirs(fs, path, watch) ==
  SelectSeq(WalkUp(fs, WalkStart(fs, path), watch), LAMBDA d : HasIgnoreFile(fs, d))

\* str::trim
RECURSIVE TrimStart(_)
TrimStart(s) == IF s # << >> /\ s[1] = " " THEN TrimStart(Tail(s)) ELSE s

RECURSIVE TrimEnd(_)
TrimEnd(s) ==
  IF s # << >> /\ s[Len(s)] = " " THEN TrimEnd(SubSeq(s, 1, Len(s) - 1)) ELSE s

Trim(s) == TrimEnd(TrimStart(s))

\* utils.rs parse_ignore_file: the rules of the lines, blank lines and
\* comments skipped, kept under the path of the ignore file.
RECURSIVE ParseLines(_)
ParseLines(ls) ==
  IF ls = << >> THEN << >>
  ELSE LET line == Trim(Head(ls))
       IN IF line = << >> \/ line[1] = "#" THEN ParseLines(Tail(ls))
          ELSE LET is_negated == line[1] = "!"
                   pattern == IF is_negated THEN Tail(line) ELSE line
               IN << [ pattern |-> pattern, is_negated |-> is_negated ] >>
                  \o ParseLines(Tail(ls))

parse_ignore_file(fs, dir) ==
  [ rules |-> ParseLines(fs.ignore_files[dir][1]),
    rule_path |-> JoinPath(dir, IgnoreFileName) ]

\* utils.rs collect_ignore_rules
collect_ignore_rules(fs, path, watch) ==
  LET ds == IgnoreDirs(fs, path, watch)
  IN [ i \in DOMAIN ds |-> parse_ignore_file(fs, ds[i]) ]

\* str::split on a character.
RECURSIVE SplitOn(_, _)
SplitOn(s, c) ==
  LET i == IF \E k \in DOMAIN s : s[k] = c
           THEN CHOOSE k \in DOMAIN s : s[k] = c /\ \A j \in 1..(k - 1) : s[j] # c
           ELSE 0
  IN IF i = 0 THEN << s >>
     ELSE << SubSeq(s, 1, i - 1) >> \o SplitOn(Drop(s, i), c)

\* str::find in s[idx..]: the offset of the first occurrence, or None.
Find(s, idx, part) ==
  LET rest == Drop(s, idx)
      hits == { k \in 0..(Len(rest) - Len(part)) : SubSeq(rest, k + 1, k + Len(part)) = part }
  IN IF hits = {} THEN None
     ELSE Some(CHOOSE k \in hits : \A j \in hits : k <= j)

\* The loop of matches_rule over the parts of a pattern with wildcards.
RECURSIVE PartsFound(_, _, _)
PartsFound(file_str, parts, idx) ==
  IF parts = << >> THEN TRUE
  ELSE LET found == Find(file_str, idx, Head(parts))
       IN IF found = None THEN FALSE
          ELSE PartsFound(file_str, Tail(parts), idx + found[1] + Len(Head(parts)))

\* utils.rs matches_rule
matches_rule(file, rule, dir) ==
  LET stripped == strip_prefix(file, dir)
      file_str == IF stripped = None THEN file ELSE stripped[1]
  IN IF Contains(rule.pattern, << "*" >>)
     THEN PartsFound(file_str, SplitOn(rule.pattern, "*"), 0)
     ELSE Contains(file_str, rule.pattern)

\* Whether a rule of the wanted polarity, in some collected rule set, matches.
AnyRuleMatches(all_rules, abs_path, negated) ==
  \E i \in DOMAIN all_rules :
    \E j \in DOMAIN all_rules[i].rules :
      /\ all_rules[i].rules[j].is_negated = negated
      /\ matches_rule(abs_path, all_rules[i].rules[j], all_rules[i].rule_path)

\* The outcome of the first rule, in the order of the sets and their lines,
\* that matches: never the combination of the program.
RECURSIVE FirstMatch(_, _, _, _)
FirstMatch(all_rules, abs_path, i, j) ==
  IF i > Len(all_rules) THEN FALSE
  ELSE IF j > Len(all_rules[i].rules) THEN FirstMatch(all_rules, abs_path, i + 1, 1)
  ELSE IF matches_rule(abs_path, all_rules[i].rules[j], all_rules[i].rule_path)
       THEN ~all_rules[i].rules[j].is_negated
       ELSE FirstMatch(all_rules, abs_path, i, j + 1)

is_git_ignoredInOrder(fs, filename, watch) ==
  FirstMatch(collect_ignore_rules(fs, filename, watch), filename, 1, 1)

\* utils.rs is_git_ignored, on an absolute file name
is_git_ignored(fs, filename, watch) ==
  LET abs_path == filename
      all_rules == collect_ignore_rules(fs, abs_path, watch)
  IN IF AnyRuleMatches(all_rules, abs_path, TRUE) THEN FALSE
     ELSE IF AnyRuleMatches(all_rules, abs_path, FALSE) THEN TRUE
     ELSE FALSE

\* git.rs GitIgnoreRules::from_ignore_file
RECURSIVE RulesOf(_)
RulesOf(ls) ==
  IF ls = << >> THEN << >>
  ELSE LET rule == from_str(Head(ls))
       IN (IF rule = None THEN << >> ELSE rule) \o RulesOf(Tail(ls))

from_ignore_file(fs, dir) ==
  [ rules |-> RulesOf(fs.ignore_files[dir][1]),
    rule_path |-> JoinPath(dir, IgnoreFileName) ]

\* git.rs GitIgnoreRules::from_dir
from_dir(fs, path, watch) ==
  LET ds == IgnoreDirs(fs, path, watch)
  IN [ i \in DOMAIN ds |-> from_ignore_file(fs, ds[i]) ]

\* Whether a rule of the wanted polarity, in some rule set of from_dir, matches.
AnyGitRuleMatches(all_rules, abs_path, negated) ==
  \E i \in DOMAIN all_rules :
    \E j \in DOMAIN all_rules[i].rules :
      /\ all_rules[i].rules[j].is_negated = negated
      /\ file_matches(all_rules[i].rules[j], abs_path, all_rules[i].rule_path)

\* git.rs is_git_ignored, on an absolute file name: each of its three
\* returns gives false.
git_is_git_ignored(fs, filename, watch) ==
  LET abs_path == filename
      all_rules == from_dir(fs, abs_path, watch)
  IN IF AnyGitRuleMatches(all_rules, abs_path, TRUE) THEN FALSE
     ELSE IF AnyGitRuleMatches(all_rules, abs_path, FALSE) THEN FALSE
     ELSE FALSE

\* ------------------------------------------------ extensions (utils.rs)

\* The upper-case letters the model uses and their lower-case forms.
UpperCase == << "E", "G", "J", "P", "T", "X" >>
LowerCase == << "e", "g", "j", "p", "t", "x" >>

\* char::to_lowercase
LowerChar(c) ==
  IF \E i \in DOMAIN UpperCase : UpperCase[i] = c
  THEN LowerCase[CHOOSE i \in DOMAIN UpperCase : UpperCase[i] = c]
  ELSE c

\* str::to_lowercase
to_lowercase(s) == [ i \in DOMAIN s |-> LowerChar(s[i]) ]

\* s.strip_prefix(".").unwrap_or(s)
StripDot(s) == IF s # << >> /\ s[1] = "." THEN Tail(s) ELSE s

\* Args::validate on the extensions: lower case, then one leading dot removed.
NormaliseExtensions(extensions) ==
  [ i \in DOMAIN extensions |-> StripDot(to_lowercase(extensions[i])) ]

\* The index of the last dot of a name, 0 when it has none.
LastDot(name) ==
  IF \E k \in DOMAIN name : name[k] = "."
  THEN CHOOSE k \in DOMAIN name : name[k] = "." /\ \A j \in (k + 1) .. Len(name) : name[j] # "."
  ELSE 0

\* Path::extension: what follows the last dot of the file name; None when
\* the name has no dot, or only the one it starts with, or is `..`.
extension(filename) ==
  LET comps == Components(filename)
      name == IF comps = << >> THEN << >> ELSE comps[Len(comps)]
  IN IF name = << >> \/ name = << "/" >> \/ name = << ".", "." >> THEN None
     ELSE IF LastDot(name) <= 1 THEN None
     ELSE Some(Drop(name, LastDot(name)))

\* The allow-list compared with the extension as it is written: never the
\* comparison of the program.
extension_matchesExact(filename, allowed_extensions) ==
  IF allowed_extensions = << >> THEN TRUE
  ELSE LET ext == extension(filename)
       IN IF ext = None
          THEN \E i \in DOMAIN allowed_extensions : allowed_extensions[i] = << >>
          ELSE \E i \in DOMAIN allowed_extensions : allowed_extensions[i] = ext[1]

\* utils.rs extension_matches
extension_matches(filename, allowed_extensions) ==
  IF allowed_extensions = << >> THEN TRUE
  ELSE LET ext == extension(filename)
       IN IF ext = None
          THEN \E i \in DOMAIN allowed_extensions : allowed_extensions[i] = << >>
          ELSE \E i \in DOMAIN allowed_extensions :
                 allowed_extensions[i] = to_lowercase(ext[1])

\* ---------------------------------------------- hidden paths (utils.rs)

\* utils.rs is_file_hidden (unix): the file name starts with a dot.  A path
\* that is the root or ends in `..` has no file name.
is_file_hidden(filename) ==
  LET comps == Components(filename)
      name == IF comps = << >> THEN << >> ELSE comps[Len(comps)]
  IN IF name = << >> \/ name = << "/" >> \/ name = << ".", "." >> THEN FALSE
     ELSE name[1] = "."

\* utils.rs is_hidden: the loop from the file upwards, left when the path
\* has no parent or when the parent equals the watch path.
RECURSIVE is_hidden(_, _)
is_hidden(path, watch) ==
  IF is_file_hidden(path) THEN TRUE
  ELSE IF Parent(path) = None THEN FALSE
  ELSE IF Components(Parent(path)[1]) = Components(watch) THEN FALSE
  ELSE is_hidden(Parent(path)[1], watch)

\* ----------------------------------------------------------- specification

InitProgramFor(numbers, commands, flags, quiets, deleteds, burst) ==
  /\ main_pc = "validate"
  /\ args \in [ command : commands, abort_previous : flags, deleted : deleteds,
                quiet : quiets, batch_exec : { FALSE } ]
  /\ error = None
  /\ q_pc = "none"
  /\ q_timer = 0
  /\ files = {}
  /\ last_update = None
  /\ command_count = 0
  /\ abort = FALSE
  /\ workers = {}
  /\ wpc = [ n \in numbers |-> "unborn" ]
  /\ child = [ n \in numbers |-> NoChild ]
  /\ targets = [ n \in numbers |-> << >> ]
  /\ invocation = [ n \in numbers |-> None ]
  /\ lines = [ n \in numbers |-> [ s \in Streams |-> 0 ] ]
  /\ exists = Paths
  /\ unsent = burst
  /\ report = << >>
  /\ report_open = TRUE

\* The program with the command numbers of the model: the queue dispatches
\* while it has a number left (command_count \in DOMAIN wpc).
InitProgram(commands, flags, quiets, deleteds, burst) ==
  InitProgramFor(CommandNumbers, commands, flags, quiets, deleteds, burst)

\* The program with no filter function under study.
InitWith(commands, flags, quiets, deleteds, burst) ==
  /\ InitProgram(commands, flags, quiets, deleteds, burst)
  /\ probe = None
  /\ verdict = None

\* Changes of one path reported under two watch roots, and of two paths.
SamePath == { << PathA, WatchDir >>, << PathA, WatchFileA >> }
TwoPaths == { << PathA, WatchDir >>, << PathB, WatchDir >> }
OnePath == { << PathA, WatchDir >> }

\* The queue under every command line and every message; children that run
\* quietly and end with exit code 0.
Init == InitWith(CommandLines, BOOLEAN, { TRUE }, { FALSE }, {})

Next ==
  \/ Validate
  \/ QueueStart
  \/ RecvAbort
  \/ RecvRestartBackoff
  \/ \E c \in SamePath : RecvAddFile(c[1], c[2]) /\ unsent' = unsent
  \/ RecvTimeout
  \/ RecvDisconnected
  \/ GraceDone
  \/ \E n \in CommandNumbers : WorkerSpawn(n, TRUE)
  \/ \E n \in CommandNumbers : ChildExit(n, 0)
  \/ \E n \in CommandNumbers : WorkerPoll(n, TRUE)
  \/ Tick

Spec == Init /\ [][Next]_vars

\* One burst of changes on a fresh queue, and no other message.
InitBurst == InitWith(CommandLines, BOOLEAN, { TRUE }, { FALSE }, Changes)

NextBurst ==
  \/ Validate
  \/ QueueStart
  \/ \E c \in Changes : BurstAddFile(c)
  \/ RecvTimeout
  \/ GraceDone
  \/ \E n \in CommandNumbers : WorkerSpawn(n, TRUE)
  \/ \E n \in CommandNumbers : ChildExit(n, 0)
  \/ \E n \in CommandNumbers : WorkerPoll(n, TRUE)
  \/ Tick

SpecBurst == InitBurst /\ [][NextBurst]_vars

\* A worker with piped output: `r {file}`, one change, a child that writes
\* to both streams.
InitWorker ==
  InitWith({ << Prog, FILE_SUBSTITUTION >> }, BOOLEAN, { FALSE }, { FALSE }, OnePath)

NextWorker ==
  \/ Validate
  \/ QueueStart
  \/ \E c \in OnePath : BurstAddFile(c)
  \/ RecvTimeout
  \/ \E n \in CommandNumbers : WorkerSpawn(n, TRUE)
  \/ \E n \in CommandNumbers, c \in ExitCodes : ChildExit(n, c)
  \/ \E n \in CommandNumbers : WorkerPoll(n, TRUE)
  \/ \E n \in CommandNumbers, s \in Streams : ReaderSend(n, s)
  \/ Tick

SpecWorker == InitWorker /\ [][NextWorker]_vars

\* The workers with every failure: spawn and wait errors, a reporting
\* channel that closes; a worker that is scheduled again and again.
InitFinish ==
  InitWith({ << Prog, FILE_SUBSTITUTION >> }, { TRUE }, { TRUE }, { FALSE }, TwoPaths)

NextFinish ==
  \/ Validate
  \/ QueueStart
  \/ \E c \in TwoPaths : BurstAddFile(c)
  \/ RecvTimeout
  \/ GraceDone
  \/ \E n \in CommandNumbers, ok \in BOOLEAN : WorkerSpawn(n, ok)
  \/ \E n \in CommandNumbers, c \in ExitCodes : ChildExit(n, c)
  \/ \E n \in CommandNumbers, wait_ok \in BOOLEAN : WorkerPoll(n, wait_ok)
  \/ Tick
  \/ CloseReport

SpecFinish ==
  /\ InitFinish
  /\ [][NextFinish]_vars
  /\ \A n \in CommandNumbers : WF_vars(WorkerPoll(n, TRUE))

\* A burst of two changes and then silence, under every mode, with paths
\* that may be removed from disk; the queue thread is scheduled again and
\* again and its clock advances.
InitDrain ==
  InitWith({ << Prog, FILE_SUBSTITUTION >>, << Prog, FILES_SUBSTITUTION >>, << Prog >> },
           BOOLEAN, { TRUE }, BOOLEAN, TwoPaths)

NextDrain ==
  \/ Validate
  \/ QueueStart
  \/ \E c \in TwoPaths : BurstAddFile(c)
  \/ RecvTimeout
  \/ GraceDone
  \/ \E n \in CommandNumbers : WorkerSpawn(n, TRUE)
  \/ \E n \in CommandNumbers : ChildExit(n, 0)
  \/ \E n \in CommandNumbers : WorkerPoll(n, TRUE)
  \/ \E p \in Paths : DeletePath(p)
  \/ Tick

SpecDrain ==
  /\ InitDrain
  /\ [][NextDrain]_vars
  /\ WF_vars(RecvTimeout)
  /\ WF_vars(GraceDone)
  /\ WF_vars(Tick)

\* Continuous activity: the clock of the queue thread advances only as far
\* as the quiet window lets it before the next AddFile or RestartBackoff is
\* handled.
BusyTick ==
  /\ Tick
  /\ IF last_update' = None THEN TRUE ELSE last_update'[1] < QuietWindowMs

InitBusy == InitWith(CommandLines, BOOLEAN, BOOLEAN, BOOLEAN, {})

NextBusy ==
  \/ Validate
  \/ QueueStart
  \/ RecvRestartBackoff
  \/ \E c \in Changes : RecvAddFile(c[1], c[2]) /\ unsent' = unsent
  \/ RecvTimeout
  \/ BusyTick

SpecBusy == InitBusy /\ [][NextBusy]_vars

\* A burst of two changes, and RestartBackoff messages at any moment.
InitBackoff ==
  InitWith({ << Prog, FILE_SUBSTITUTION >>, << Prog, FILES_SUBSTITUTION >> },
           BOOLEAN, { TRUE }, { FALSE }, TwoPaths)

NextBackoff ==
  \/ Validate
  \/ QueueStart
  \/ \E c \in TwoPaths : BurstAddFile(c)
  \/ RecvRestartBackoff
  \/ RecvTimeout
  \/ GraceDone
  \/ \E n \in CommandNumbers : WorkerSpawn(n, TRUE)
  \/ \E n \in CommandNumbers : ChildExit(n, 0)
  \/ \E n \in CommandNumbers : WorkerPoll(n, TRUE)
  \/ Tick

SpecBackoff == InitBackoff /\ [][NextBackoff]_vars

\* A burst of two changes run per file, and an Abort message at any moment;
\* a worker is scheduled again and again.
InitAbort ==
  InitWith({ << Prog, FILE_SUBSTITUTION >> }, BOOLEAN, { TRUE }, { FALSE }, TwoPaths)

NextAbort ==
  \/ Validate
  \/ QueueStart
  \/ \E c \in TwoPaths : BurstAddFile(c)
  \/ RecvAbort
  \/ RecvTimeout
  \/ GraceDone
  \/ \E n \in CommandNumbers : WorkerSpawn(n, TRUE)
  \/ \E n \in CommandNumbers, c \in ExitCodes : ChildExit(n, c)
  \/ \E n \in CommandNumbers : WorkerPoll(n, TRUE)
  \/ Tick

SpecAbort ==
  /\ InitAbort
  /\ [][NextAbort]_vars
  /\ \A n \in CommandNumbers : WF_vars(WorkerPoll(n, TRUE))

\* Two commands run per file with abort-previous on, whose children may
\* change their credentials; try_wait does not fail; a worker is scheduled
\* again and again.
InitKill ==
  InitWith({ << Prog, FILE_SUBSTITUTION >> }, { TRUE }, { TRUE }, { FALSE }, TwoPaths)

NextKill ==
  \/ Validate
  \/ QueueStart
  \/ \E c \in TwoPaths : BurstAddFile(c)
  \/ RecvTimeout
  \/ GraceDone
  \/ \E n \in CommandNumbers : WorkerSpawn(n, TRUE)
  \/ \E n \in CommandNumbers, c \in ExitCodes : ChildExit(n, c)
  \/ \E n \in CommandNumbers : ChildEscapes(n)
  \/ \E n \in CommandNumbers : WorkerPoll(n, TRUE)
  \/ Tick

SpecKill ==
  /\ InitKill
  /\ [][NextKill]_vars
  /\ \A n \in CommandNumbers : WF_vars(WorkerPoll(n, TRUE))

\* A burst of two changes run per file, while either channel may break: the
\* senders of the message channel are dropped, or the receiver of the
\* reporting channel is.
InitBroken ==
  InitWith({ << Prog, FILE_SUBSTITUTION >> }, BOOLEAN, { TRUE }, { FALSE }, TwoPaths)

NextBroken ==
  \/ Validate
  \/ QueueStart
  \/ \E c \in TwoPaths : BurstAddFile(c)
  \/ RecvDisconnected
  \/ RecvTimeout
  \/ GraceDone
  \/ \E n \in CommandNumbers : WorkerSpawn(n, TRUE)
  \/ \E n \in CommandNumbers : ChildExit(n, 0)
  \/ \E n \in CommandNumbers : WorkerPoll(n, TRUE)
  \/ Tick
  \/ CloseReport

SpecBroken == InitBroken /\ [][NextBroken]_vars

\* Templates with a placeholder twice, with an unfinished placeholder, with
\* none and with both, run on a burst of two changes.
InvokeLines ==
  { << Prog, FILE_SUBSTITUTION, FILE_SUBSTITUTION >>,
    << FILES_SUBSTITUTION, FILES_SUBSTITUTION >>,
    << Prog, FILES_SUBSTITUTION >>,
    << Prog, << "{", "f", "i", "l", "e" >> >>,
    << Prog >>,
    << Prog, FILE_SUBSTITUTION, FILES_SUBSTITUTION >> }

InitInvoke == InitWith(InvokeLines, BOOLEAN, { TRUE }, { FALSE }, TwoPaths)

NextInvoke ==
  \/ Validate
  \/ QueueStart
  \/ \E c \in TwoPaths : BurstAddFile(c)
  \/ RecvTimeout
  \/ GraceDone
  \/ \E n \in CommandNumbers : WorkerSpawn(n, TRUE)
  \/ \E n \in CommandNumbers : ChildExit(n, 0)
  \/ \E n \in CommandNumbers : WorkerPoll(n, TRUE)
  \/ Tick

SpecInvoke == InitInvoke /\ [][NextInvoke]_vars

\* One file that changes again and again, a per-file command without
\* abort-previous whose children run as long as they like, and one command
\* number more than MAX_CONCURRENT_WORKERS.
LiveNumbers == 0 .. MAX_CONCURRENT_WORKERS

InitLive ==
  /\ InitProgramFor(LiveNumbers, { << Prog, FILE_SUBSTITUTION >> }, { FALSE }, { TRUE }, { FALSE }, {})
  /\ probe = None
  /\ verdict = None

NextLive ==
  \/ Validate
  \/ QueueStart
  \/ \E c \in OnePath : RecvAddFile(c[1], c[2]) /\ unsent' = unsent
  \/ RecvTimeout
  \/ \E n \in LiveNumbers : WorkerSpawn(n, TRUE)
  \/ \E n \in LiveNumbers : ChildExit(n, 0)
  \/ \E n \in LiveNumbers : WorkerPoll(n, TRUE)
  \/ Tick

SpecLive == InitLive /\ [][NextLive]_vars

\* Changes of two paths and restarts of the quiet window at any moment, in
\* both modes, with paths that may be removed from disk; the channels stay
\* whole and no Abort is sent.
InitArmed ==
  InitWith({ << Prog, FILE_SUBSTITUTION >>, << Prog, FILES_SUBSTITUTION >> },
           BOOLEAN, { TRUE }, BOOLEAN, TwoPaths)

NextArmed ==
  \/ Validate
  \/ QueueStart
  \/ \E c \in TwoPaths : BurstAddFile(c)
  \/ RecvRestartBackoff
  \/ RecvTimeout
  \/ GraceDone
  \/ \E n \in CommandNumbers : WorkerSpawn(n, TRUE)
  \/ \E n \in CommandNumbers : ChildExit(n, 0)
  \/ \E n \in CommandNumbers : WorkerPoll(n, TRUE)
  \/ \E p \in Paths : DeletePath(p)
  \/ Tick

SpecArmed == InitArmed /\ [][NextArmed]_vars

\* ------------------------------------------------- the matcher under study

\* Pattern lines of an ignore file.
PatDoubleStarFoo == << "*", "*", "/", "f", "o", "o" >>   \* **/foo
PatADoubleStarB == << "a", "/", "*", "*", "/", "b" >>   \* a/**/b
PatAbcDoubleStar == << "a", "b", "c", "/", "*", "*" >>   \* abc/**
PatDir == << "d", "i", "r", "/" >>   \* dir/
PatLog == << "*", ".", "l", "o", "g" >>   \* *.log
PatKeepLog == << "!", "k", "e", "e", "p", ".", "l", "o", "g" >>   \* !keep.log
PatFooStarLog == << "f", "o", "o", "/", "*", ".", "l", "o", "g" >>   \* foo/*.log
PatFoo == << "f", "o", "o" >>   \* foo
PatDocFrotz == << "d", "o", "c", "/", "f", "r", "o", "t", "z" >>   \* doc/frotz

Lines ==
  { PatDoubleStarFoo,
    PatADoubleStarB,
    PatAbcDoubleStar,
    PatDir,
    PatLog,
    PatKeepLog,
    PatFooStarLog,
    PatFoo,
    PatDocFrotz }

\* Paths relative to the directory of the ignore file.
Candidates ==
  { << "f", "o", "o" >>,
    << "a", "/", "f", "o", "o" >>,
    << "a", "/", "b", "/", "f", "o", "o" >>,
    << "a", "/", "b" >>,
    << "a", "/", "c" >>,
    << "d", "o", "c", "/", "f", "r", "o", "t", "z" >>,
    << "a", "/", "d", "o", "c", "/", "f", "r", "o", "t", "z" >>,
    << "a", "/", "x", "/", "b" >>,
    << "a", "/", "x", "/", "y", "/", "b" >>,
    << "a", "/", "x", "/", "y", "/", "c" >>,
    << "a", "b", "c" >>,
    << "a", "b", "c", "/", "x" >>,
    << "a", "b", "c", "/", "x", "/", "y" >>,
    << "a", "b", "c", "x" >>,
    << "d", "i", "r" >>,
    << "d", "i", "r", "/" >>,
    << "d", "i", "r", "/", "f", "i", "l", "e", ".", "t", "x", "t" >>,
    << "d", "i", "r", "e", "c", "t", "o", "r", "y", "/" >>,
    << "d", "i", "r", "2" >>,
    << "d", "i", "r", "2", "/" >>,
    << "a", ".", "l", "o", "g" >>,
    << "k", "e", "e", "p", ".", "l", "o", "g" >>,
    << "f", "o", "o", "/", "x", ".", "l", "o", "g" >>,
    << "f", "o", "o", "/", "b", "a", "r", "/", "x", ".", "l", "o", "g" >> }

\* The directory of the ignore file, and a directory beside it.
RuleDir == << "/", "w" >>
OtherDir == << "/", "v" >>

\* The path text of `rel` under the directory `dir`: dir.join(rel).
Under(dir, rel) == dir \o << "/" >> \o rel

\* The calls under study: string_matches on a candidate, file_matches on a
\* path under the rule directory or beside it.
MatchProbes ==
  { [ fn |-> "string_matches", line |-> l, file |-> c, dir |-> << >> ] :
      l \in Lines, c \in Candidates }
  \cup { [ fn |-> "file_matches", line |-> l, file |-> Under(d, c), dir |-> RuleDir ] :
            l \in Lines, c \in Candidates, d \in { RuleDir, OtherDir } }

\* The call under study.
call == probe[1]

\* rule.string_matches(file, &rule.pattern) for the rule of the line
CallStringMatches ==
  /\ probe # None
  /\ verdict = None
  /\ call.fn = "string_matches"
  /\ from_str(call.line) # None
  /\ LET rule == from_str(call.line)[1]
     IN verdict' = Some(string_matches(rule.dirs_only, call.file, rule.pattern))
  /\ UNCHANGED << main_pc, args, error, queue_vars, worker_vars, exists, unsent, report,
                  report_open, probe >>

\* rule.file_matches(file, dir) for the rule of the line
CallFileMatches ==
  /\ probe # None
  /\ verdict = None
  /\ call.fn = "file_matches"
  /\ from_str(call.line) # None
  /\ verdict' = Some(file_matches(from_str(call.line)[1], call.file, call.dir))
  /\ UNCHANGED << main_pc, args, error, queue_vars, worker_vars, exists, unsent, report,
                  report_open, probe >>

InitMatch ==
  /\ InitProgram({ << Prog >> }, { FALSE }, { TRUE }, { FALSE }, {})
  /\ probe \in { Some(x) : x \in MatchProbes }
  /\ verdict = None

NextMatch ==
  \/ CallStringMatches
  \/ CallFileMatches

SpecMatch == InitMatch /\ [][NextMatch]_vars

\* ----------------------------------------------- the rule sets under study

\* A comment line of an ignore file.
PatComment == << "#", " ", "c" >>

\* The watch directory of the calls, and a directory below it.
WatchRoot == RuleDir
SubDir == Under(WatchRoot, << "s" >>)

\* The contents an ignore file may have; None is no ignore file.
IgnoreContents ==
  { None,
    Some(<< PatLog >>),
    Some(<< PatKeepLog >>),
    Some(<< PatLog, PatKeepLog >>),
    Some(<< PatKeepLog, PatLog >>),
    Some(<< PatComment, << >>, PatFoo >>) }

\* The changed files of the calls.
ALog == << "a", ".", "l", "o", "g" >>
KeepLog == << "k", "e", "e", "p", ".", "l", "o", "g" >>
ATxt == << "a", ".", "t", "x", "t" >>

ChangedFiles ==
  { Under(WatchRoot, ALog), Under(WatchRoot, KeepLog), Under(WatchRoot, ATxt),
    Under(SubDir, ALog), Under(SubDir, KeepLog) }

\* The file systems of the calls: every changed file exists.
FileSystems ==
  { [ dirs |-> { << "/" >>, WatchRoot, SubDir },
      files |-> ChangedFiles,
      ignore_files |-> (WatchRoot :> top) @@ (SubDir :> sub) ] :
      top \in IgnoreContents, sub \in IgnoreContents }

\* The watch paths a change of file c is reported under: the watched
\* directory, or a watched file of the directory of c, whose parent is what
\* the watcher observes.
WatchPathsOf(c) == { WatchRoot } \cup { w \in ChangedFiles : Parent(w) = Parent(c) }

\* The calls under study.
IgnoreProbes ==
  { [ fn |-> p[1], file |-> p[2][1], watch |-> p[2][2], fs |-> p[3] ] :
      p \in { "utils::is_git_ignored", "git::is_git_ignored" }
             \X { << c, w >> \in ChangedFiles \X ({ WatchRoot } \cup ChangedFiles) : w \in WatchPathsOf(c) }
             \X FileSystems }

\* utils::is_git_ignored(filename, watch)
CallIsGitIgnored ==
  /\ probe # None
  /\ verdict = None
  /\ call.fn = "utils::is_git_ignored"
  /\ verdict' = Some(is_git_ignored(call.fs, call.file, call.watch))
  /\ UNCHANGED << main_pc, args, error, queue_vars, worker_vars, exists, unsent, report,
                  report_open, probe >>

\* git::is_git_ignored(filename, watch)
CallGitIsGitIgnored ==
  /\ probe # None
  /\ verdict = None
  /\ call.fn = "git::is_git_ignored"
  /\ verdict' = Some(git_is_git_ignored(call.fs, call.file, call.watch))
  /\ UNCHANGED << main_pc, args, error, queue_vars, worker_vars, exists, unsent, report,
                  report_open, probe >>

InitIgnore ==
  /\ InitProgram({ << Prog >> }, { FALSE }, { TRUE }, { FALSE }, {})
  /\ probe \in { Some(x) : x \in IgnoreProbes }
  /\ verdict = None

NextIgnore ==
  \/ CallIsGitIgnored
  \/ CallGitIsGitIgnored

SpecIgnore == InitIgnore /\ [][NextIgnore]_vars

\* --------------------------------------------- the extensions under study

\* Extensions as the user may give them.
GivenExtensions == { << "t", "x", "t" >>, << ".", "t", "x", "t" >>, << "T", "X", "T" >>, << ".", "T", "x", "t" >>, << >>, << "." >>, << "j", "p", "e", "g" >>, << "i", "g", "n", "o", "r", "e", "d" >> }

\* The extension lists given: none, one or two extensions.
MaxExtensions == 2

GivenLists ==
  UNION { [ 1 .. n -> GivenExtensions ] : n \in 0 .. MaxExtensions }

\* The changed files.
ExtensionFiles ==
  { << "f", "i", "l", "e", ".", "t", "x", "t" >>, << "f", "i", "l", "e", ".", "T", "X", "T" >>, << "a", "/", "p", "a", "t", "h", "/", "f", "i", "l", "e", ".", "t", "x", "t", ".", "i", "g", "n", "o", "r", "e", "d" >>, << ".", "t", "x", "t", ".", "i", "g", "n", "o", "r", "e", "d" >>, << ".", "t", "x", "t", ".", "j", "P", "e", "G" >>,
    << "f", "i", "l", "e" >>, << ".", "h", "i", "d", "d", "e", "n" >>, << "f", "i", "l", "e", "." >>, << "a", ".", "b", "/", "f", "i", "l", "e" >>, << "a", "/", "p", "a", "t", "h", "/", "f", "i", "l", "e", ".", "T", "x", "t" >> }

ExtensionProbes ==
  { [ fn |-> "extension_matches", given |-> g, extensions |-> g, validated |-> FALSE,
      file |-> f ] : g \in GivenLists, f \in ExtensionFiles }

\* Args::validate, the extensions
ValidateExtensions ==
  /\ probe # None
  /\ call.fn = "extension_matches"
  /\ ~call.validated
  /\ probe' = Some([ call EXCEPT !.extensions = NormaliseExtensions(call.extensions),
                                 !.validated = TRUE ])
  /\ UNCHANGED << main_pc, args, error, queue_vars, worker_vars, exists, unsent, report,
                  report_open, verdict >>

\* extension_matches(filename, args.extensions.as_slice())
CallExtensionMatches ==
  /\ probe # None
  /\ verdict = None
  /\ call.fn = "extension_matches"
  /\ call.validated
  /\ verdict' = Some(extension_matches(call.file, call.extensions))
  /\ UNCHANGED << main_pc, args, error, queue_vars, worker_vars, exists, unsent, report,
                  report_open, probe >>

InitExtensions ==
  /\ InitProgram({ << Prog >> }, { FALSE }, { TRUE }, { FALSE }, {})
  /\ probe \in { Some(x) : x \in ExtensionProbes }
  /\ verdict = None

NextExtensions ==
  \/ ValidateExtensions
  \/ CallExtensionMatches

SpecExtensions == InitExtensions /\ [][NextExtensions]_vars

\* ------------------------------------------- the hidden paths under study

\* Directories given to watch: main.rs keeps the canonical path of what is
\* given as the watch path of its events.
WatchedDirs == { << "/", "w" >>, << "/", ".", "v", "/", "w" >>, << "/", "w", "/", ".", "d" >>, << "/", "w", "/", "s" >> }

\* Changed files, relative to a watched directory.
RelativeFiles ==
  { << "f", ".", "t", "x", "t" >>, << ".", "f", ".", "t", "x", "t" >>, << "s", "/", "f", ".", "t", "x", "t" >>, << ".", "s", "/", "f", ".", "t", "x", "t" >>, << "s", "/", ".", "t", "/", "f", ".", "t", "x", "t" >>, << "s", "/", "t", "/", ".", "f" >>, << "s", "/", "t", "/", "f", ".", "t", "x", "t" >>,
    << ".", "s", "/", ".", "t", "/", "f", ".", "t", "x", "t" >>, << "a", ".", "b", "/", "f", ".", "t", "x", "t" >>, << ".", "s", "/", "t", "/", "f", ".", "t", "x", "t" >>, << "s", "/", "t", ".", "d", "/", "f", ".", "t", "x", "t" >>, << "s", "/", ".", ".", "t", "/", "f", ".", "t", "x", "t" >> }

\* Files given to watch, relative to their directory, and the files of that
\* directory whose changes the watch of the directory reports.
WatchedNames == { << "f", ".", "t", "x", "t" >>, << ".", "f", ".", "t", "x", "t" >> }
SiblingNames == { << "f", ".", "t", "x", "t" >>, << ".", "f", ".", "t", "x", "t" >>, << "g", ".", "t", "x", "t" >> }

\* The calls: a change below a watched directory; a change of a watched file
\* or beside it (its directory is watched, not recursively).
HiddenProbes ==
  { [ fn |-> "is_hidden", file |-> Under(d, r), watch |-> d ] :
      d \in WatchedDirs, r \in RelativeFiles }
  \cup { [ fn |-> "is_hidden", file |-> Under(d, g), watch |-> Under(d, n) ] :
           d \in WatchedDirs, n \in WatchedNames, g \in SiblingNames }

\* is_hidden(filename, watch)
CallIsHidden ==
  /\ probe # None
  /\ verdict = None
  /\ call.fn = "is_hidden"
  /\ verdict' = Some(is_hidden(call.file, call.watch))
  /\ UNCHANGED << main_pc, args, error, queue_vars, worker_vars, exists, unsent, report,
                  report_open, probe >>

InitHidden ==
  /\ InitProgram({ << Prog >> }, { FALSE }, { TRUE }, { FALSE }, {})
  /\ probe \in { Some(x) : x \in HiddenProbes }
  /\ verdict = None

NextHidden == CallIsHidden

SpecHidden == InitHidden /\ [][NextHidden]_vars

\* ------------------------------------------------------------------ claims

\* The Start events on the reporting channel, in order.
StartEvents == SelectSeq(report, LAMBDA e : e.type = "Start")

\* The events of the given type sent for command n.
Sends(n, type) ==
  { i \in DOMAIN report : report[i].type = type /\ report[i].command_number = n }

\* The changes of the burst the queue has received.
Added == Changes \ unsent

\* A step that dispatches an invocation.
DispatchStep == command_count' # command_count

\* C1: the command numbers of the Start events are 0, 1, 2, ... in the order
\* the events were sent: none is reused, skipped or decreased.
C1_CommandNumbersSequential ==
  \A i \in 1 .. Len(StartEvents) : StartEvents[i].command_number = i - 1

C1_Witness ==
  /\ Len(StartEvents) = MaxCommands
  /\ StartEvents[MaxCommands].command_number = MaxCommands - 1

\* C2: an Output or Finish event of command n is on the reporting channel
\* only after the Start event of n.
C2_StartPrecedes ==
  \A i \in DOMAIN report :
    report[i].type \in { "Output", "Finish" } =>
      \E j \in 1 .. (i - 1) :
        report[j].type = "Start" /\ report[j].command_number = report[i].command_number

C2_Witness ==
  \E n \in CommandNumbers :
    /\ Cardinality(Sends(n, "Output")) = 2
    /\ Sends(n, "Finish") # {}
    /\ Sends(n, "Start") # {}

\* C3 (as claimed): when the grace sleep ends and the next invocation is
\* built and spawned, every worker that was alive when the flag was raised
\* has terminated.
C3_AllAbortedBeforeNext ==
  [][ (q_pc = "grace" /\ q_pc' # "grace") =>
        \A n \in workers : wpc[n] \in { "finished", "panicked" } ]_vars

\* C4: the abort flag is false whenever a worker is spawned, and it is true
\* only while the queue thread sleeps in the flush that raised it, a flush
\* that began after every existing worker was dispatched.
C4_NoStaleAbort ==
  /\ [](abort => q_pc = "grace")
  /\ [][ \A n \in CommandNumbers :
           (wpc[n] = "unborn" /\ wpc'[n] = "spawn") => ~abort' ]_vars

C4_Witness ==
  \E n \in CommandNumbers :
    /\ n > 0
    /\ wpc[n] = "spawn"
    /\ child[n - 1] = Signaled(SIGKILL)
    /\ ~abort

\* The number of Start events whose file list has file name f k times.
NamedIn(names, f) == Cardinality({ i \in DOMAIN names : names[i] = f })

\* C5: in per-file mode the changes of a burst are dispatched one per
\* invocation: the invocations so far and the pending entries add up to the
\* changes added, every Start names one file, the numbers run 0, 1, ... in
\* dispatch order, and a path is targeted once for every change of it.
C5_PerFileBurst ==
  (main_pc = "running" /\ ~batch_exec) =>
    /\ command_count + Cardinality(files) = Cardinality(Added)
    /\ Len(StartEvents) = command_count
    /\ \A i \in 1 .. Len(StartEvents) :
         /\ StartEvents[i].command_number = i - 1
         /\ Len(StartEvents[i].files) = 1
    /\ \A p \in Paths :
         Cardinality({ i \in 1 .. Len(StartEvents) : StartEvents[i].files = << FileName(p) >> })
           + Cardinality({ f \in files : f[1] = p })
         = Cardinality({ c \in Added : c[1] = p })

C5_Witness ==
  /\ main_pc = "running"
  /\ ~batch_exec
  /\ Added = TwoPaths
  /\ files = {}
  /\ last_update = None
  /\ command_count = 2

\* C6: in batch mode the changes of a burst are dispatched in one
\* invocation, whose targets are all the changes added, and the pending set
\* is empty after it.
C6_BatchBurst ==
  (main_pc = "running" /\ batch_exec /\ command_count > 0) =>
    /\ command_count = 1
    /\ files = {}
    /\ last_update = None
    /\ Len(StartEvents) = 1
    /\ Len(StartEvents[1].files) = Cardinality(Added)
    /\ \A p \in Paths :
         NamedIn(StartEvents[1].files, FileName(p)) = Cardinality({ c \in Added : c[1] = p })

C6_Witness ==
  /\ main_pc = "running"
  /\ batch_exec
  /\ Contains(command, FILES_SUBSTITUTION)
  /\ Added = TwoPaths
  /\ command_count = 1
  /\ files = {}

C8_BothPlaceholdersRejected ==
  LET cmd == Join(args.command)
  IN (/\ main_pc # "validate"
      /\ Contains(cmd, FILE_SUBSTITUTION)
      /\ Contains(cmd, FILES_SUBSTITUTION)) =>
       /\ main_pc = "error"
       /\ error = Some("CommandParseError")
       /\ q_pc = "none"
       /\ command_count = 0
       /\ report = << >>

C8_Witness ==
  /\ main_pc = "error"
  /\ error = Some("CommandParseError")
  /\ Contains(Join(args.command), FILE_SUBSTITUTION)

\* C9: a worker sends at most one Finish for its command, exactly one when
\* it has ended without a panic, none before the command was started; and a
\* worker whose child has exited or was killed does end.
C9_FinishedOnce ==
  /\ [](\A n \in CommandNumbers :
          /\ Cardinality(Sends(n, "Finish")) <= 1
          /\ (Sends(n, "Finish") # {}) => (wpc[n] = "finished" /\ Sends(n, "Start") # {})
          /\ (wpc[n] = "finished" /\ report_open) => Cardinality(Sends(n, "Finish")) = 1)
  /\ \A n \in CommandNumbers : (child[n].state = "exited") ~> (wpc[n] = "finished")

C9_Witness ==
  \E n \in CommandNumbers :
    /\ wpc[n] = "finished"
    /\ \E i \in Sends(n, "Finish") : report[i].exit_code = Some(SIGKILL + 128)

\* C10: the pending set is keyed on the (changed path, watch root) pair: an
\* AddFile for a pair that is already pending leaves the pending set as it
\* is, an AddFile for another pair adds that pair and displaces none; both
\* reset the timestamp and dispatch nothing.
C10_ReAddCoalesces ==
  [][ \A c \in SamePath :
        RecvAddFile(c[1], c[2]) =>
          /\ c \in files => files' = files
          /\ c \notin files => (files' = files \cup { c } /\ Cardinality(files') = Cardinality(files) + 1)
          /\ last_update' = Some(0)
          /\ ~DispatchStep ]_vars

C10_Witness ==
  /\ files = SamePath
  /\ last_update = Some(0)
  /\ command_count = 1

\* The call under study is a finished is_git_ignored call.
IgnoreCallDone ==
  /\ probe # None
  /\ verdict # None
  /\ call.fn \in { "utils::is_git_ignored", "git::is_git_ignored" }

\* The watch root's ignore file holds `*.log` then `!keep.log`, and the
\* directory below has none.
LogThenKeep ==
  /\ call.fs.ignore_files[WatchRoot] = Some(<< PatLog, PatKeepLog >>)
  /\ call.fs.ignore_files[SubDir] = None

\* C11: with a watch-root .gitignore holding `*.log` then `!keep.log`, a
\* change to a.log is ignored (is_git_ignored returns true) and a change to
\* keep.log is not.
C11_LogIgnoredKeepPasses ==
  (IgnoreCallDone /\ LogThenKeep)
    => /\ call.file = Under(WatchRoot, ALog) => verdict[1] = TRUE
       /\ call.file = Under(WatchRoot, KeepLog) => verdict[1] = FALSE

\* Some negated rule of the collected rule sets matches the file, by the
\* matcher of the implementation called.
NegatedRuleMatches ==
  IF call.fn = "utils::is_git_ignored"
  THEN AnyRuleMatches(collect_ignore_rules(call.fs, call.file, call.watch), call.file, TRUE)
  ELSE AnyGitRuleMatches(from_dir(call.fs, call.file, call.watch), call.file, TRUE)

\* C12: when a negated rule of any collected rule set matches the path,
\* is_git_ignored returns false, whatever non-negated rule matches it too.
C12_NegationWins ==
  (IgnoreCallDone /\ NegatedRuleMatches) => verdict[1] = FALSE

\* `*.log` in the directory of the file and `!keep.log` at the watch root:
\* both match keep.log, the non-negated one is collected first, and the
\* file is not ignored.
C12_Witness ==
  /\ IgnoreCallDone
  /\ call.fn = "utils::is_git_ignored"
  /\ call.file = Under(SubDir, KeepLog)
  /\ call.fs.ignore_files[SubDir] = Some(<< PatLog >>)
  /\ call.fs.ignore_files[WatchRoot] = Some(<< PatKeepLog >>)
  /\ AnyRuleMatches(collect_ignore_rules(call.fs, call.file, call.watch), call.file, FALSE)
  /\ NegatedRuleMatches
  /\ verdict = Some(FALSE)

\* The finished call under study applies the rule of line l to the path c
\* relative to the rule's directory: string_matches on c itself, or
\* file_matches on c under the rule's directory.
CalledOn(l, c) ==
  /\ probe # None
  /\ verdict # None
  /\ call.fn \in { "string_matches", "file_matches" }
  /\ call.line = l
  /\ IF call.fn = "string_matches" THEN call.file = c
     ELSE call.dir = RuleDir /\ call.file = Under(RuleDir, c)

\* C13: `**/foo` matches foo, a/foo and a/b/foo; `a/**/b` matches a/x/y/b
\* and does not match a/x/y/c.
C13_DoubleStarDirectories ==
  /\ \A c \in { << "f", "o", "o" >>, << "a", "/", "f", "o", "o" >>, << "a", "/", "b", "/", "f", "o", "o" >> } :
       CalledOn(PatDoubleStarFoo, c) => verdict[1] = TRUE
  /\ CalledOn(PatADoubleStarB, << "a", "/", "x", "/", "y", "/", "b" >>) => verdict[1] = TRUE
  /\ CalledOn(PatADoubleStarB, << "a", "/", "x", "/", "y", "/", "c" >>) => verdict[1] = FALSE

\* file_matches of `**/foo` on a/b/foo under the rule's directory gave true.
C13_Witness ==
  /\ CalledOn(PatDoubleStarFoo, << "a", "/", "b", "/", "f", "o", "o" >>)
  /\ call.fn = "file_matches"
  /\ verdict = Some(TRUE)

\* C14: `abc/**` matches abc/x and abc/x/y and does not match abcx.
C14_TrailingDoubleStar ==
  /\ \A c \in { << "a", "b", "c", "/", "x" >>, << "a", "b", "c", "/", "x", "/", "y" >> } :
       CalledOn(PatAbcDoubleStar, c) => verdict[1] = TRUE
  /\ CalledOn(PatAbcDoubleStar, << "a", "b", "c", "x" >>) => verdict[1] = FALSE

\* string_matches of `abc/**` on abc/x/y gave true.
C14_Witness ==
  /\ CalledOn(PatAbcDoubleStar, << "a", "b", "c", "/", "x", "/", "y" >>)
  /\ call.fn = "string_matches"
  /\ verdict = Some(TRUE)

\* The tokens of a rule before its last one.
Front(pattern) == SubSeq(pattern, 1, Len(pattern) - 1)

\* C15: a rule ending in `/` matches only when what the tokens before the
\* trailing slash leave of the path is empty or starts with `/`; `dir/`
\* matches dir/ and dir/file.txt and does not match directory/, dir2, dir2/.
C15_DirsOnly ==
  /\ (/\ probe # None
      /\ verdict # None
      /\ call.fn = "string_matches"
      /\ call.line[Len(call.line)] = "/"
      /\ verdict[1] = TRUE)
       => string_matches(FALSE, call.file, Front(from_str(call.line)[1].pattern))
  /\ \A c \in { << "d", "i", "r", "/" >>, << "d", "i", "r", "/", "f", "i", "l", "e", ".", "t", "x", "t" >> } : CalledOn(PatDir, c) => verdict[1] = TRUE
  /\ \A c \in { << "d", "i", "r", "e", "c", "t", "o", "r", "y", "/" >>, << "d", "i", "r", "2" >>, << "d", "i", "r", "2", "/" >> } : CalledOn(PatDir, c) => verdict[1] = FALSE

\* string_matches of `dir/` on dir/file.txt gave true: the tokens are used
\* up and file.txt is left.
C15_Witness ==
  /\ CalledOn(PatDir, << "d", "i", "r", "/", "f", "i", "l", "e", ".", "t", "x", "t" >>)
  /\ call.fn = "string_matches"
  /\ from_str(call.line)[1].dirs_only
  /\ verdict = Some(TRUE)


\* The call under study is a finished extension_matches call.
ExtensionCallDone ==
  /\ probe # None
  /\ verdict # None
  /\ call.fn = "extension_matches"

\* Two texts are equal but for the case of their letters.
SameButCase(a, b) ==
  /\ Len(a) = Len(b)
  /\ \A i \in DOMAIN a : LowerChar(a[i]) = LowerChar(b[i])

\* The extension as given, lower-cased or not, without its one leading dot.
Configured(given) == IF given # << >> /\ given[1] = "." THEN Tail(given) ELSE given

\* C16: with an empty allow-list every file is accepted; otherwise a file
\* with an extension is accepted iff the extension equals, but for case, a
\* configured extension without its leading dot, and a file with no
\* extension iff the validated list holds the empty string; a list of the
\* empty string alone accepts only files without an extension.
C16_ExtensionFilter ==
  ExtensionCallDone =>
    LET ext == extension(call.file)
        given == call.given
    IN /\ given = << >> => verdict[1] = TRUE
       /\ (given # << >> /\ ext # None) =>
            (verdict[1] = \E i \in DOMAIN given : SameButCase(ext[1], Configured(given[i])))
       /\ (given # << >> /\ ext = None) =>
            (verdict[1] = \E i \in DOMAIN given : Configured(given[i]) = << >>)
       /\ (given = << << >> >> /\ verdict[1] = TRUE) =>
            (IF ext = None THEN TRUE ELSE ext[1] = << >>)

\* file.TXT is accepted by the list given as `.Txt`.
C16_Witness ==
  /\ ExtensionCallDone
  /\ call.file = << "f", "i", "l", "e", ".", "T", "X", "T" >>
  /\ call.given = << << ".", "T", "x", "t" >> >>
  /\ call.extensions = << << "t", "x", "t" >> >>
  /\ verdict = Some(TRUE)


\* The components of the file below the watch path; none when the file is
\* the watch path itself.
BelowWatch == Components(strip_prefix(call.file, call.watch)[1])

\* C17: for a changed file at or under the watch path, is_hidden is true iff
\* the file name or a directory segment strictly below the watch path
\* starts with a dot; segments of the watch path or above it never make the
\* file hidden.
C17_HiddenBelowWatchOnly ==
  (/\ probe # None
   /\ verdict # None
   /\ call.fn = "is_hidden"
   /\ strip_prefix(call.file, call.watch) # None)
    => (verdict[1] = \E i \in DOMAIN BelowWatch : BelowWatch[i][1] = ".")


\* The exit statuses a wait can give: a code, a signal, or neither.
ExitStatuses ==
  [ state : { "exited" },
    code : { None } \cup { Some(c) : c \in ExitCodes },
    signal : { None, Some(SIGKILL) } ]

\* The exit code the Finish event is to carry for an exit status.
Normalised(status) ==
  IF status.code # None THEN Some(status.code[1])
  ELSE IF status.signal # None THEN Some(128 + status.signal[1])
  ELSE None

\* C18: the Finish event carries the raw exit code of the child when there
\* is one, else 128 plus the number of the signal that ended it, else no
\* exit code; it carries none when the wait call fails.
C18_ExitCodeNormalised ==
  /\ [](\A status \in ExitStatuses : get_exit_code(status) = Normalised(status))
  /\ [][ \A n \in CommandNumbers :
           /\ (WorkerPoll(n, TRUE) /\ child[n].state = "exited" /\ report_open)
                => report' = Append(report, Finish(n, Normalised(child[n])))
           /\ (WorkerPoll(n, FALSE) /\ report_open)
                => report' = Append(report, Finish(n, None)) ]_vars

\* One command was killed by the abort signal and reported 128 + 9, another
\* ended by itself and reported its exit code, or its wait failed.
C18_Witness ==
  \E i, j \in DOMAIN report :
    /\ report[i].type = "Finish"
    /\ report[j].type = "Finish"
    /\ report[i].exit_code = Some(SIGKILL + 128)
    /\ report[j].exit_code \in { None, Some(1) }


\* C19 (as claimed): an invocation whose child could not be spawned is
\* reported: its Start event is followed by a final event for the same
\* command number, as long as the reporting channel has a receiver.
C19_SpawnFailureReported ==
  \A n \in CommandNumbers :
    (wpc[n] = "panicked" /\ Sends(n, "Start") # {})
      ~> (Sends(n, "Finish") # {} \/ ~report_open)


\* A step that puts a Start event on the reporting channel.
StartStep == Len(SelectSeq(report', LAMBDA e : e.type = "Start")) > Len(StartEvents)

\* The clock of the queue thread reads strictly more than the quiet window
\* since the timestamp was set.
WindowPassed ==
  IF last_update = None THEN FALSE
  ELSE \E late \in Latencies : last_update[1] + late > QuietWindowMs

\* C20: an invocation is dispatched, and a Start event sent, only when the
\* pending set is not empty and strictly more than the quiet window has
\* passed since the queue last handled an AddFile or a RestartBackoff with
\* changes pending; the step that handles one of these sets the timestamp
\* anew and dispatches nothing.
C20_DebounceSafety ==
  /\ [][ (DispatchStep \/ StartStep) => (files # {} /\ WindowPassed) ]_vars
  /\ [][ \A c \in SamePath :
           RecvAddFile(c[1], c[2]) => (last_update' = Some(0) /\ ~DispatchStep /\ ~StartStep) ]_vars
  /\ [][ (RecvRestartBackoff /\ files # {})
           => (last_update' = Some(0) /\ ~DispatchStep /\ ~StartStep) ]_vars

\* One invocation was dispatched, and an addition handled since waits in
\* its quiet window without a second Start event.
C20_Witness ==
  /\ command_count = 1
  /\ Len(StartEvents) = 1
  /\ files # {}
  /\ last_update # None
  /\ WindowOpen(last_update)


\* The pending entries a step removes.
Removed == files \ files'

\* C21: once changes are pending and no further message arrives, the
\* pending set is eventually empty, the queue loop still running; and every
\* entry that leaves the pending set is a target of the invocation
\* dispatched in that step, or its path is gone and deletions are not
\* tracked.
C21_PendingDrained ==
  /\ (files # {} /\ unsent = {}) ~> (files = {} /\ q_pc = "recv")
  /\ [][ \A f \in Removed :
           \/ (DispatchStep /\ \E i \in DOMAIN targets'[command_count] :
                                  targets'[command_count][i] = f[1])
           \/ (~deleted_files /\ f[1] \notin exists) ]_vars

\* In batch mode, of two pending changes one was dropped for its path was
\* gone and the other dispatched alone; the pending set is empty.
C21_Witness ==
  /\ q_pc = "recv"
  /\ files = {}
  /\ unsent = {}
  /\ command_count = 1
  /\ batch_exec
  /\ ~deleted_files
  /\ \E f \in TwoPaths : f[1] \notin exists /\ \E g \in TwoPaths : targets[0] = << g[1] >>


\* C22: while AddFile and RestartBackoff messages are handled before the
\* quiet window has passed since the one before, nothing is flushed: no
\* command number is used, no event sent, the flag stays down, no worker
\* exists, and the pending set only grows.
C22_BusyPostpones ==
  /\ [](main_pc = "running" =>
          /\ q_pc = "recv"
          /\ command_count = 0
          /\ report = << >>
          /\ ~abort
          /\ workers = {}
          /\ \A n \in CommandNumbers : wpc[n] = "unborn")
  /\ [][ files \subseteq files' ]_vars

\* Every change the watchers can report is pending, the queue has waited a
\* whole receive timeout since the last of them, and nothing was dispatched.
C22_Witness ==
  /\ files = Changes
  /\ last_update = Some(RecvTimeoutMs)
  /\ q_timer = RecvTimeoutMs
  /\ command_count = 0
  /\ report = << >>


\* The targets of the invocation a dispatching step builds.
NewTargets == { targets'[command_count][i] : i \in DOMAIN targets'[command_count] }

\* C23: when deletions are not tracked, a flush drops the pending entries
\* whose path is gone: none is a target of an invocation the flush
\* dispatches at once, none stays pending into the grace wait, after which
\* only entries still pending are dispatched; a flush that
\* finds no path left uses no command number, sends nothing, leaves the flag
\* and the workers alone and leaves the queue idle.  When deletions are
\* tracked, every entry that leaves the pending set is dispatched.
C23_GoneEntriesDropped ==
  /\ [][ (~deleted_files /\ q_pc = "recv" /\ DispatchStep) => NewTargets \subseteq exists ]_vars
  /\ [][ (~deleted_files /\ q_pc = "recv" /\ q_pc' = "grace")
           => \A f \in files' : f[1] \in exists ]_vars
  /\ [][ (q_pc = "grace" /\ DispatchStep) => NewTargets \subseteq { f[1] : f \in files } ]_vars
  /\ [][ (~deleted_files /\ q_pc = "recv" /\ Removed # {} /\ \A f \in files : f[1] \notin exists)
           => /\ files' = {}
              /\ last_update' = None
              /\ q_pc' = "recv"
              /\ UNCHANGED << command_count, report, abort, wpc, child, targets >> ]_vars
  /\ [][ (deleted_files /\ Removed # {})
           => (DispatchStep /\ \A f \in Removed : f[1] \in NewTargets) ]_vars

\* Both pending changes were dropped by a flush for their paths were gone:
\* the queue is idle again and nothing was dispatched.
C23_Witness ==
  /\ q_pc = "recv"
  /\ ~deleted_files
  /\ unsent = {}
  /\ exists = {}
  /\ files = {}
  /\ last_update = None
  /\ command_count = 0
  /\ report = << >>


\* C24: a RestartBackoff leaves the pending set as it is and dispatches
\* nothing; with changes pending it sets the timestamp anew, with none
\* pending the timestamp is None and stays None.
C24_BackoffKeepsPending ==
  [][ RecvRestartBackoff =>
        /\ files' = files
        /\ UNCHANGED << q_pc, command_count, report, abort, wpc, child, targets >>
        /\ files # {} => last_update' = Some(0)
        /\ files = {} => (last_update = None /\ last_update' = None) ]_vars

\* After the first of two per-file dispatches, with every change of the
\* burst reported, the entry left pending has a new timestamp: a
\* RestartBackoff has put off its flush.
C24_Witness ==
  /\ unsent = {}
  /\ command_count = 1
  /\ Cardinality(files) = 1
  /\ last_update = Some(0)


\* C25: the Abort message ends the queue loop and flushes nothing; once the
\* loop has ended no command number is used, no Start event is sent and no
\* worker appears; the flag is down, no worker kills its child, and a worker
\* whose child has ended still sends its Finish.
C25_AbortEndsLoop ==
  /\ [][ RecvAbort =>
           /\ q_pc' = "stopped"
           /\ UNCHANGED << command_count, report, abort, wpc, child, targets >> ]_vars
  /\ [](q_pc = "stopped" => ~abort)
  /\ [][ q_pc = "stopped" =>
           /\ q_pc' = "stopped"
           /\ ~DispatchStep
           /\ ~StartStep
           /\ \A n \in CommandNumbers :
                /\ wpc[n] = "unborn" => wpc'[n] = "unborn"
                /\ child'[n] = Signaled(SIGKILL) => child[n] = Signaled(SIGKILL) ]_vars
  /\ \A n \in CommandNumbers :
       (q_pc = "stopped" /\ wpc[n] = "poll" /\ child[n].state = "exited")
         ~> (Sends(n, "Finish") # {})

\* The loop was ended after the first of two per-file dispatches, with the
\* second change pending: command 0 has finished with its own exit code and
\* there is no command 1.
C25_Witness ==
  /\ q_pc = "stopped"
  /\ unsent = {}
  /\ command_count = 1
  /\ wpc[0] = "finished"
  /\ \E i \in Sends(0, "Finish") : report[i].exit_code = Some(1)
  /\ Sends(1, "Start") = {}


\* The worker threads that have not ended.
Alive == { n \in CommandNumbers : wpc[n] \in { "spawn", "poll" } }

\* C26: the abort flag goes up only in a flush of a non-empty pending set,
\* with abort-previous configured and a worker thread that has not ended; it
\* is down again when that flush leaves its sleep, before the new worker
\* exists; so it is down whenever the queue thread is not in the grace sleep,
\* and always down when abort-previous is off.
C26_FlagOnlyInGrace ==
  /\ [][ (~abort /\ abort') =>
           /\ q_pc = "recv" /\ q_pc' = "grace"
           /\ abort_previous
           /\ Alive # {}
           /\ Alive \subseteq workers'
           /\ files' # {}
           /\ UNCHANGED << command_count, report, wpc >> ]_vars
  /\ [][ (q_pc = "grace" /\ q_pc' # "grace") =>
           /\ abort /\ ~abort'
           /\ \A n \in CommandNumbers : wpc'[n] # wpc[n] => (wpc'[n] = "spawn" /\ n = command_count) ]_vars
  /\ [](q_pc # "grace" => ~abort)
  /\ [](~abort_previous => ~abort)

\* The flag is up in the flush for command 1, while the child of command 0,
\* whose handle is tracked, is running.
C26_Witness ==
  /\ abort
  /\ q_pc = "grace"
  /\ abort_previous
  /\ command_count = 1
  /\ workers = { 0 }
  /\ wpc[0] = "poll"
  /\ child[0] = Running


\* C27: a child is killed only by its polling worker while the flag is up,
\* and the worker polls on; a kill that fails changes nothing: the worker
\* ends only once its child has ended, and then with one Finish that carries
\* the status of the child, which it sends whenever the child has ended.
C27_KillBestEffort ==
  /\ [][ \A n \in CommandNumbers :
           (child'[n] = Signaled(SIGKILL) /\ child[n] # Signaled(SIGKILL)) =>
             /\ abort
             /\ child[n] = Running
             /\ wpc[n] = "poll" /\ wpc'[n] = "poll"
             /\ report' = report ]_vars
  /\ [][ \A n \in CommandNumbers :
           child[n] = Unkillable => wpc'[n] = wpc[n] ]_vars
  /\ [][ \A n \in CommandNumbers :
           (wpc[n] = "poll" /\ wpc'[n] # "poll") =>
             /\ wpc'[n] = "finished"
             /\ child[n].state = "exited"
             /\ report' = Append(report, Finish(n, get_exit_code(child[n]))) ]_vars
  /\ [](\A n \in CommandNumbers :
          Cardinality(Sends(n, "Finish")) = IF wpc[n] = "finished" THEN 1 ELSE 0)
  /\ \A n \in CommandNumbers :
       (wpc[n] = "poll" /\ child[n].state = "exited") ~> (Sends(n, "Finish") # {})

\* Command 0 outlived the flush that raised the flag for command 1, and has
\* then reported the exit code of its child.
C27_Witness ==
  /\ wpc[0] = "finished"
  /\ \E i \in Sends(0, "Finish"), j \in Sends(1, "Start") :
       /\ j < i
       /\ report[i].exit_code = Some(1)


\* C28: a disconnected message channel ends the queue loop; a dispatch whose
\* Start event can not be sent ends it too, with no worker for the command
\* number it used; and once the loop has ended no command number is used, no
\* Start event is sent and no worker appears.
C28_BrokenChannelFatal ==
  /\ [][ RecvDisconnected =>
           /\ q_pc' = "stopped"
           /\ UNCHANGED << command_count, report, wpc, targets >> ]_vars
  /\ [][ (DispatchStep /\ ~report_open) =>
           /\ q_pc' = "stopped"
           /\ UNCHANGED << report, wpc, targets >> ]_vars
  /\ [][ (DispatchStep /\ report_open) =>
           /\ q_pc' = "recv"
           /\ StartStep
           /\ wpc'[command_count] = "spawn" ]_vars
  /\ [][ q_pc = "stopped" =>
           /\ q_pc' = "stopped"
           /\ ~DispatchStep
           /\ ~StartStep
           /\ \A n \in CommandNumbers : wpc[n] = "unborn" => wpc'[n] = "unborn" ]_vars

\* The Start event of the second command could not be sent: its number was
\* used, it has no worker, and the loop has ended with the first command
\* still running.
C28_Witness ==
  /\ q_pc = "stopped"
  /\ ~report_open
  /\ command_count = 2
  /\ Sends(1, "Start") = {}
  /\ wpc[1] = "unborn"
  /\ wpc[0] = "poll"


\* Text a is text s with `to` in the place of every occurrence of `from`,
\* read from left to right, and with nothing else changed.
RECURSIVE Substituted(_, _, _, _)
Substituted(s, a, from, to) ==
  IF Len(s) >= Len(from) /\ SubSeq(s, 1, Len(from)) = from
  THEN /\ Len(a) >= Len(to)
       /\ SubSeq(a, 1, Len(to)) = to
       /\ Substituted(SubSeq(s, Len(from) + 1, Len(s)), SubSeq(a, Len(to) + 1, Len(a)), from, to)
  ELSE IF s = << >> THEN a = << >>
  ELSE /\ a # << >>
       /\ Head(a) = Head(s)
       /\ Substituted(Tail(s), Tail(a), from, to)

\* The texts with exactly one space after each but the last.
RECURSIVE SpaceSeparated(_)
SpaceSeparated(texts) ==
  IF Len(texts) = 1 THEN texts[1]
  ELSE texts[1] \o << " " >> \o SpaceSeparated(Tail(texts))

\* C29: the argument built for a worker is the template with every {file}
\* replaced by the text of its single target path, or with every {files}
\* replaced by the texts of all its target paths with one space between
\* them, or the template itself when it has neither; the first case is that
\* of the per-file mode, and a per-file invocation has exactly one target.
C29_InvocationBuilt ==
  /\ [](main_pc \in { "start", "running" } =>
          /\ batch_exec = ~Contains(command, FILE_SUBSTITUTION)
          /\ ~(Contains(command, FILE_SUBSTITUTION) /\ Contains(command, FILES_SUBSTITUTION)))
  /\ [](\A n \in CommandNumbers :
          /\ (invocation[n] = None) = (targets[n] = << >>)
          /\ invocation[n] # None =>
               LET a == invocation[n][1]
                   texts == [ i \in DOMAIN targets[n] |-> to_string_lossy(targets[n][i]) ]
               IN /\ ~batch_exec => Len(targets[n]) = 1
                  /\ IF Contains(command, FILE_SUBSTITUTION)
                     THEN /\ ~batch_exec
                          /\ Substituted(command, a, FILE_SUBSTITUTION, texts[1])
                          /\ ~Contains(a, FILE_SUBSTITUTION)
                     ELSE IF Contains(command, FILES_SUBSTITUTION)
                     THEN /\ batch_exec
                          /\ Substituted(command, a, FILES_SUBSTITUTION, SpaceSeparated(texts))
                          /\ ~Contains(a, FILES_SUBSTITUTION)
                     ELSE /\ batch_exec
                          /\ a = command)
  /\ [][ DispatchStep /\ report_open => invocation'[command_count] # None ]_vars

\* The template `r {file} {file}` was run for src/a.rs.
C29_Witness ==
  /\ targets[0] = << PathA >>
  /\ invocation[0] =
       Some(<< "r", " ", "s", "r", "c", "/", "a", ".", "r", "s",
               " ", "s", "r", "c", "/", "a", ".", "r", "s" >>)


\* C30: a validation that succeeds leaves abort-previous on when the joined
\* command has neither placeholder, whatever the flag was, and leaves it as
\* the flag was when the command has a placeholder; nothing changes it later.
C30_AbortPreviousDefault ==
  /\ [][ (main_pc = "validate" /\ main_pc' = "start") =>
           LET cmd == Join(args.command)
           IN /\ args'.command = << cmd >>
              /\ IF ~Contains(cmd, FILE_SUBSTITUTION) /\ ~Contains(cmd, FILES_SUBSTITUTION)
                 THEN args'.abort_previous = TRUE
                 ELSE args'.abort_previous = args.abort_previous ]_vars
  /\ [][ main_pc # "validate" => args' = args ]_vars

\* A command with no placeholder is running with abort-previous on, and the
\* flag is up for its second invocation.
C30_Witness ==
  /\ main_pc = "running"
  /\ command = Prog
  /\ abort_previous
  /\ abort
  /\ command_count = 1


\* The length of the first segment of p: what precedes its first slash.
SegLen(p) == IF FindSlash(p, 1) = 0 THEN Len(p) ELSE FindSlash(p, 1) - 1

\* The matcher with an Asterisk that is held to the current segment: the
\* remaining tokens are tried from the split points of that segment only.
RECURSIVE SegmentMatches(_, _, _)
RECURSIVE SegmentWalk(_, _, _)
RECURSIVE SegmentStripDirs(_, _, _)

SegmentStripDirs(dirs_only, remainder, rule) ==
  IF FindSlash(remainder, 1) = 0 THEN FALSE
  ELSE LET from_slash == Drop(remainder, FindSlash(remainder, 1) - 1)
       IN IF SegmentMatches(dirs_only, from_slash, rule) THEN TRUE
          ELSE SegmentStripDirs(dirs_only, Tail(from_slash), rule)

SegmentWalk(dirs_only, p, rule) ==
  IF rule = << >>
  THEN IF p = << >> THEN TRUE ELSE dirs_only \/ p[1] = "/"
  ELSE LET e == rule[1]
           rest == Tail(rule)
       IN CASE e.kind = "Literal" ->
                 IF Len(p) >= Len(e.text) /\ SubSeq(p, 1, Len(e.text)) = e.text
                 THEN SegmentWalk(dirs_only, Drop(p, Len(e.text)), rest)
                 ELSE FALSE
            [] e.kind = "Slash" ->
                 IF p = << >>
                 THEN IF rest # << >> THEN FALSE ELSE SegmentWalk(dirs_only, p, rest)
                 ELSE IF p[1] # "/" THEN FALSE ELSE SegmentWalk(dirs_only, Tail(p), rest)
            [] e.kind = "Asterisk" ->
                 IF rest = << >>
                 THEN IF p = << >> THEN FALSE ELSE SegmentWalk(dirs_only, RestOfSegment(p), rest)
                 ELSE IF p # << >> /\ p[1] = "/" THEN FALSE
                 ELSE \E i \in 0 .. Min(SegLen(p), Len(p) - 1) :
                        SegmentMatches(dirs_only, Drop(p, i), rest)
            [] e.kind = "DoubleAsterisk" ->
                 IF rest = << >> THEN TRUE
                 ELSE IF FindSlash(p, 1) = 0 THEN TRUE
                 ELSE IF SegmentMatches(dirs_only, p, rest) THEN TRUE
                 ELSE SegmentStripDirs(dirs_only, p, rest)
            [] e.kind = "QuestionMark" ->
                 IF p = << >> THEN FALSE
                 ELSE IF p[1] = "/" THEN FALSE
                 ELSE SegmentWalk(dirs_only, Tail(p), rest)
            [] e.kind = "CharRange" ->
                 IF p = << >> THEN FALSE
                 ELSE IF InRanges(p[1], e.ranges) = e.negated THEN FALSE
                 ELSE SegmentWalk(dirs_only, Tail(p), rest)

SegmentMatches(dirs_only, file, rule) ==
  IF rule # << >> /\ rule[1].kind = "Slash"
  THEN IF Len(rule) = 1 THEN FALSE
       ELSE SegmentWalk(dirs_only, IF file # << >> /\ file[1] = "/" THEN Tail(file) ELSE file, Tail(rule))
  ELSE SegmentWalk(dirs_only, file, rule)

\* C31 (as claimed): a single `*` followed by more tokens never matches
\* across a separator: string_matches gives what the matcher gives whose
\* Asterisk tries the split points of the current segment only, so
\* `foo/*.log` does not match foo/bar/x.log.
C31_AsteriskWithinSegment ==
  (verdict # None /\ call.fn = "string_matches")
    => verdict[1] = SegmentMatches(from_str(call.line)[1].dirs_only, call.file,
                                   from_str(call.line)[1].pattern)


\* The index of the first DoubleAsterisk of the tokens, 0 when there is none.
RECURSIVE FirstDoubleAsterisk(_, _)
FirstDoubleAsterisk(tokens, i) ==
  IF i > Len(tokens) THEN 0
  ELSE IF tokens[i].kind = "DoubleAsterisk" THEN i
  ELSE FirstDoubleAsterisk(tokens, i + 1)

\* The text the Literal and Slash tokens before index k stand for.
RECURSIVE TextBefore(_, _)
TextBefore(tokens, k) ==
  IF k <= 1 THEN << >>
  ELSE TextBefore(tokens, k - 1)
         \o (IF tokens[k - 1].kind = "Slash" THEN << "/" >> ELSE tokens[k - 1].text)

\* r itself, and r without one or more whole leading `segment/` prefixes.
SegmentSuffixes(r) == { r } \cup { Drop(r, i) : i \in { k \in DOMAIN r : r[k] = "/" } }

\* C32 (as claimed): for a pattern of literals and separators up to a
\* DoubleAsterisk that is not its last token, string_matches holds iff the
\* candidate starts with the text before the DoubleAsterisk and the
\* remaining tokens match what follows it, unmodified or without some whole
\* leading segments; so `a/**/b` does not match a/c.
C32_DoubleAsteriskSuffixes ==
  (verdict # None /\ call.fn = "string_matches" /\ call.line \in { PatADoubleStarB, PatDoubleStarFoo })
    => LET rule == from_str(call.line)[1]
           k == FirstDoubleAsterisk(rule.pattern, 1)
           before == TextBefore(rule.pattern, k)
           rest == SubSeq(rule.pattern, k + 1, Len(rule.pattern))
       IN verdict[1] =
            /\ Len(call.file) >= Len(before)
            /\ SubSeq(call.file, 1, Len(before)) = before
            /\ \E r \in SegmentSuffixes(Drop(call.file, Len(before))) :
                 string_matches(rule.dirs_only, r, rest)


\* A path text without the separator it ends in, which is no part of a Path.
TrimSlash(c) == IF c # << >> /\ c[Len(c)] = "/" THEN SubSeq(c, 1, Len(c) - 1) ELSE c

\* The relative paths of the model that the called file is, under the
\* directory of the call: none when the file is not under it.
RelativeTo(file, dir) == { TrimSlash(c) : c \in { x \in Candidates : file = Under(dir, x) } }

C34_RulesRelativeToDirectory ==
  (verdict # None /\ call.fn = "git::is_git_ignored")
    => LET sets == from_dir(call.fs, call.file, call.watch)
       IN /\ \A i \in DOMAIN sets :
               /\ sets[i].rule_path \in call.fs.dirs
               /\ HasIgnoreFile(call.fs, sets[i].rule_path)
          /\ (/\ call.fs.ignore_files[WatchRoot] = Some(<< PatLog >>)
              /\ call.file \in { Under(WatchRoot, ALog), Under(SubDir, ALog) })
               => \E i \in DOMAIN sets :
                    /\ sets[i].rule_path = WatchRoot
                    /\ \E j \in DOMAIN sets[i].rules :
                         file_matches(sets[i].rules[j], call.file, sets[i].rule_path)


\* The directory a rule set was loaded from: the one that holds its file.
RuleDirOf(set) == Parent(set.rule_path)[1]

\* Path a is path b or is below it.
AtOrBelow(a, b) ==
  /\ Len(Components(b)) <= Len(Components(a))
  /\ SubSeq(Components(a), 1, Len(Components(b))) = Components(b)

\* C35 (as claimed): the rule sets from_dir returns come from the directory
\* of the changed path and its ancestors, deepest first, each from a
\* directory that holds an ignore file; none comes from above the watch
\* path; and the ignore file of the watch directory is among them when the
\* changed path is below it.
C35_WalkStopsAtWatch ==
  (verdict # None /\ call.fn = "git::is_git_ignored")
    => LET sets == from_dir(call.fs, call.file, call.watch)
       IN /\ \A i \in DOMAIN sets :
               /\ HasIgnoreFile(call.fs, RuleDirOf(sets[i]))
               /\ AtOrBelow(call.file, RuleDirOf(sets[i]))
               /\ AtOrBelow(RuleDirOf(sets[i]), call.watch)
          /\ \A i, j \in DOMAIN sets :
               i < j => Len(Components(RuleDirOf(sets[i]))) > Len(Components(RuleDirOf(sets[j])))
          /\ (AtOrBelow(call.file, call.watch) /\ HasIgnoreFile(call.fs, call.watch))
               => \E i \in DOMAIN sets : RuleDirOf(sets[i]) = call.watch


\* C36: while the queue loop runs, the quiet-window timer is set iff the
\* pending set is not empty; so the loop, which ends here by no message and
\* no broken channel, never ends: execute is not entered with an empty set.
C36_TimerArmedIffPending ==
  /\ [](q_pc \in { "recv", "grace" } => ((last_update # None) <=> (files # {})))
  /\ [](main_pc = "running" => q_pc \in { "recv", "grace" })

\* One of two pending changes was dispatched on its own: the other is still
\* pending, under the timer that was set before the dispatch.
C36_Witness ==
  /\ q_pc = "recv"
  /\ main_pc = "running"
  /\ command_count = 1
  /\ targets[0] = << PathA >>
  /\ files = { << PathB, WatchDir >> }
  /\ last_update = Some(QuietWindowMs + Quantum)

\* C37: on the reporting channel every Output event of a command comes before
\* the Finish event of that command.
C37_OutputBeforeFinish ==
  \A i, j \in DOMAIN report :
    (/\ i < j
     /\ report[i].type = "Finish"
     /\ report[j].type = "Output")
      => report[i].command_number # report[j].command_number

\* C38: in per-file mode with abort-previous, the dispatch of one path of a
\* pending set does not raise the abort flag against a worker spawned for
\* another path of the same set.  Under SpecAbort every change is added
\* before the first dispatch and within one quiet window, so all the paths
\* dispatched belong to one pending set: the flag is never raised by a flush
\* while a worker is alive and a path of the set is still pending.
C38_NoAbortWithinPendingSet ==
  \A n \in CommandNumbers :
    (/\ ~batch_exec
     /\ abort_previous
     /\ q_pc = "grace"
     /\ files # {}
     /\ n \in workers
     /\ wpc[n] \in { "spawn", "poll" })
      => ~abort

\* C39: at most MAX_CONCURRENT_WORKERS execution workers are spawned and not
\* yet finished at any time.
C39_WorkersBounded ==
  Cardinality({ n \in DOMAIN wpc : wpc[n] \in { "spawn", "poll" } }) <= MAX_CONCURRENT_WORKERS

\* C40: the targets of one invocation hold each changed path at most once,
\* and a per-file command is started at most once for a path that changed
\* once, also when two watchers report the change.  Under SpecBurst every
\* watcher reports a path once, within one quiet window.
C40_EachPathOnce ==
  /\ \A n \in DOMAIN targets :
       \A i, j \in DOMAIN targets[n] : i # j => targets[n][i] # targets[n][j]
  /\ ~batch_exec =>
       \A p \in Paths :
         Cardinality({ i \in DOMAIN report :
                        /\ report[i].type = "Start"
                        /\ report[i].files = StartFiles(<< p >>) }) <= 1

====
